---------------------------- MODULE Spec2Model ----------------------------
(***************************************************************************)
(* A model of the RAG chat handler of src/src/index.ts.                    *)
(*                                                                         *)
(* Spec      the POST handler from its guards to the response it returns:  *)
(*           embedding call, bounded paginated scan of the KV store,       *)
(*           ranking, refusal or generation call.                          *)
(* RelaySpec the relay started once the generation call has answered with  *)
(*           a stream: upstream reads, re-framing, event mapping, client   *)
(*           writes, the catch block and the final close.                  *)
(*                                                                         *)
(* SimSpec   one call of cosineSim on a pair of arguments.                 *)
(*                                                                         *)
(* Scores are fixed-point numbers in hundredths (SCALE), so MIN_SIM = 0.10 *)
(* reads 10.  Text is a sequence of one-character strings; "N" is the line *)
(* break, "D" stands for the five characters "data:" and "E" for the six   *)
(* characters "event:".                                                    *)
(***************************************************************************)
EXTENDS Integers, Sequences, FiniteSets, TLC

\* An absent (null or undefined) vector, and a present one.
NoVec == [present |-> FALSE, v |-> <<>>]
Vec(v) == [present |-> TRUE, v |-> v]

Max(a, b) == IF a >= b THEN a ELSE b
Min(a, b) == IF a <= b THEN a ELSE b

\* ---------------------------------------------------------------- bounds
\* Keys of one page returned by list.
MaxPageLen == 2
\* Parsed chunk records with an embedding a small store holds in all.
MaxScored == 6
\* Parsed chunk records with an embedding a mixed store or a bulk store
\* holds in all.
MaxBulkScored == 2
\* Other single keys (expired, not JSON, get raises, record without an
\* embedding) a mixed store or an endless store holds.
MaxOther == 1
\* Runs of BlockLen expired keys a bulk store holds.
MaxBlocks == 3
\* Times a store that is not endless hands out a cursor before it is
\* exhausted.
MaxCursors == 3
\* Keys of one run of expired keys.
BlockLen == 1000
\* Frames of an upstream stream.
MaxFrames == 2
\* Bytes of an upstream stream that is not made of frames.
MaxRaw == 5
\* Slices of a text that are recorded.
MaxChunks == 5
\* Reads of the chat-completions upstream that return a chunk.
MaxReads == 2
\* Heartbeats during one relay.
MaxBeats == 2
\* Lines of a segment parsed on its own.
MaxLines == 3

\* ------------------------------------------------------ program constants
MAX_LIST_PAGES == 12
MAX_KEYS == 3000
TOP_K == 5
\* 0.10, in hundredths
MIN_SIM == 10
\* hundredths per unit of score
SCALE == 100

\* Response texts of the handler.
MSG_NO_KEY == "Server misconfigured: missing OPENAI_API_KEY"
MSG_NO_KV == "Server misconfigured: missing RAG_KV binding"
MSG_EMPTY == "Empty query."
MSG_EMBED == "Embedding failed (no vector)."
MSG_UNAVAILABLE == "I can only answer from your documents, and I couldn't access them right now."
MSG_REFUSAL == "Sorry, I don't know based on the provided documents."
MSG_OPENAI == "OpenAI error: "

VARIABLES
    pc,          \* position of the handler
    env,         \* [keyOk, kvBound, qEmpty]: the request and its bindings
    storeLeft,   \* what the store can still return:
                 \* [scored, other, blocks, cursors]
    queryVec,    \* the embedding of the query, NoVec before the call returns
    cursor,      \* TRUE iff the last list returned a cursor
    pages,       \* pages listed
    processed,   \* keys fetched and scored
    candidates,  \* scored candidates, <<[id, score]>>
    slice,       \* the keys of the page being fetched
    pending,     \* indices of slice whose get has not returned
    arrived,     \* indices of slice whose get has returned, in the order
                 \* in which they did
    top,         \* the RetrievalResult
    ranked,      \* TRUE once the scan has completed and top is computed
    faulted,     \* TRUE iff a list or get raised a fault
    response,    \* what the handler returned, NoResponse while it runs
    embedResp,   \* how the embedding call ended: "none" before it has,
                 \* "vector", "null" (status not ok, or no vector), "throw"
    upstream,    \* how the generation call ended: "none" before it has,
                 \* "stream", "notok", "throw"
    \* requests issued to the embedding service, the store and the
    \* generation service
    embedCalls, listCalls, getCalls, genCalls,
    \* the relay
    rpc,         \* position of the relay: "idle", "read", "write", "catch",
                 \* "closing", "closed"
    frames,      \* the upstream stream: frames, each followed by a delimiter,
    tail,        \* and the bytes after the last of them
    pos,         \* upstream bytes delivered by the reads so far
    pend,        \* bytes the decoder holds back (an unfinished character)
    buf,         \* the text buffer
    out,         \* the client writes issued, <<[ev, src]>>
    settled,     \* the number of them that have settled
    clientGone,  \* TRUE once a client write failed
    fault,       \* the fault raised by an upstream read
    closes,      \* invocations of writer.close()
    cutDelim,    \* TRUE iff a chunk ended between the line breaks of a delimiter
    cutChar,     \* TRUE iff a chunk ended inside a character
    \* a call of cosineSim
    argA, argB,  \* its arguments
    sim,         \* [done, value]: whether it has returned, and what
    \* a call of chunkText (ingest.js)
    ctext,       \* its argument, [len, blank]: the length of the text and
                 \* whether it is all white space
    ci,          \* the index i
    chunks,      \* the lengths of the trimmed slices pushed, the first
                 \* MaxChunks of them
    cmore,       \* the number of slices pushed after those, modulo 2
    cpc,         \* "idle", "loop", "returned"
    chunked,     \* the value returned
    \* the relay of the chat-completions variant (part_003)
    wpc,         \* the await the relay is at: "idle", "start", "read", "token",
                 \* "done", "end", "catch"; "closed" after the last one
    upLeft,      \* what upstream has still to deliver, read by read
    batch,       \* the data lines of the blocks in hand still to be handled
    wout,        \* the writes issued on the writer, in order
    hbOn,        \* TRUE while the heartbeat interval is set
    beats,       \* heartbeats fired
    wcloses,     \* invocations of writer.close()
    wgone,       \* TRUE once a write was rejected
    \* the parsing of one segment
    segIn,       \* the lines of the segment
    segOut,      \* [done, evt]
    \* two calls of fetch in one isolate
    worker,      \* what they share: [keyOk, kvBound, store], never written
    reqs,        \* per call: [pc, q, slice, pending, calls, response]
    locals,      \* per activation of fetch: [cursor, pages, processed,
                 \* candidates]
    \* a call of fetch in the variant that falls back to plain chat (part_000)
    fenv,        \* [keyOk, kvBound, qEmpty]
    fstore,      \* the pages of the store
    fb           \* [pc, queryVec, cursor, pages, candidates, slice, pending,
                 \* fault, input, genCalls, response]

hvars == <<pc, env, storeLeft, queryVec, cursor, pages, processed, candidates,
           slice, pending, arrived, top, ranked, faulted, response, embedResp,
           upstream,
           embedCalls, listCalls, getCalls, genCalls>>

rvars == <<rpc, frames, tail, pos, pend, buf, out, settled, clientGone, fault, closes,
           cutDelim, cutChar>>

svars == <<argA, argB, sim>>

cvars == <<ctext, ci, chunks, cmore, cpc, chunked>>

wvars == <<wpc, upLeft, batch, wout, hbOn, beats, wcloses, wgone>>

pvars == <<segIn, segOut>>

qvars == <<worker, reqs, locals>>

fvars == <<fenv, fstore, fb>>

xvars == <<qvars, fvars>>

\* The variables of the programs other than the handler and its relay.
ovars == <<svars, cvars, wvars, pvars, xvars>>

vars == <<hvars, rvars, ovars>>

\* ------------------------------------------------------------ VectorScore
\* The query embedding and the embeddings chunks are stored with.  Their
\* norms are whole numbers, so Sqrt is exact on them.  The last one points
\* opposite to the query and is long enough for the 1e-12 of the denominator
\* to be lost in the addition: 20000 + 1e-12 is 20000 in double precision,
\* and the score is -20000 / 20000.
QueryVec == Vec(<<3, 4>>)
Embeddings ==
    { Vec(<<3, 4>>), Vec(<<-663, 616>>), Vec(<<4, -3>>), Vec(<<-2400, -3200>>) }

RECURSIVE SumTo(_, _)
SumTo(f, n) == IF n = 0 THEN 0 ELSE f[n] + SumTo(f, n - 1)

\* Math.sqrt, rounded down; exact on the norms of Embeddings and QueryVec.
RECURSIVE Sqrt(_)
Sqrt(n) ==
    IF n < 2 THEN n
    ELSE CHOOSE s \in { IF (r + 1) * (r + 1) <= n THEN r + 1 ELSE r :
                         r \in {2 * Sqrt(n \div 4)} } : TRUE

\* A similarity that takes an absent vector for an empty one.
CosineSim_AbsentIsEmpty(a, b) ==
    LET n == Min(Len(a.v), Len(b.v))
        dot == SumTo([i \in 1..n |-> a.v[i] * b.v[i]], n)
        na == SumTo([i \in 1..n |-> a.v[i] * a.v[i]], n)
        nb == SumTo([i \in 1..n |-> b.v[i] * b.v[i]], n)
        den == Sqrt(na) * Sqrt(nb)
    IN IF den = 0 THEN 0 ELSE (SCALE * dot) \div den

\* A similarity that divides by the squared norm of its first argument.
CosineSim_OneNorm(a, b) ==
    IF ~a.present \/ ~b.present THEN -SCALE
    ELSE LET n == Min(Len(a.v), Len(b.v))
             dot == SumTo([i \in 1..n |-> a.v[i] * b.v[i]], n)
             na == SumTo([i \in 1..n |-> a.v[i] * a.v[i]], n)
         IN IF na = 0 THEN 0 ELSE (SCALE * dot) \div na

\* dot / (sqrt(na) * sqrt(nb) + 1e-12), in hundredths.  The 1e-12 only
\* decides the quotient when the denominator is 0, and then dot is 0.
CosineSim(a, b) ==
    IF ~a.present \/ ~b.present THEN -SCALE
    ELSE LET n == Min(Len(a.v), Len(b.v))
             dot == SumTo([i \in 1..n |-> a.v[i] * b.v[i]], n)
             na == SumTo([i \in 1..n |-> a.v[i] * a.v[i]], n)
             nb == SumTo([i \in 1..n |-> b.v[i] * b.v[i]], n)
             den == Sqrt(na) * Sqrt(nb)
         IN IF den = 0 THEN 0 ELSE (SCALE * dot) \div den

\* ------------------------------------------------------------- ChunkStore
\* A key is described by what get returns for it:
\*   fault    get raises
\*   absent   get returns null (n such keys in a row)
\*   badjson  the value is not JSON
\*   json     the value parses; emb is its embedding, NoVec when it has none
Keys ==
    { [k |-> "fault", n |-> 1, emb |-> NoVec],
      [k |-> "badjson", n |-> 1, emb |-> NoVec],
      [k |-> "absent", n |-> 1, emb |-> NoVec],
      [k |-> "absent", n |-> BlockLen, emb |-> NoVec] }
    \cup { [k |-> "json", n |-> 1, emb |-> e] : e \in Embeddings \cup {NoVec} }

\* What a key draws on in the store.
KindOf(key) ==
    IF key.k = "json" /\ key.emb.present THEN "scored"
    ELSE IF key.n > 1 THEN "block" ELSE "other"

Count(page, kind) == Cardinality({ i \in 1..Len(page) : KindOf(page[i]) = kind })

\* What is left of a store once `page` has been listed.
After(page, cur, left) ==
    [scored |-> left.scored - Count(page, "scored"),
     other |-> left.other - Count(page, "other"),
     blocks |-> left.blocks - Count(page, "block"),
     cursors |-> IF cur THEN left.cursors - 1 ELSE left.cursors]

\* The pages a store with `left` can return.
PagesOf(left) ==
    LET has == [scored |-> left.scored, other |-> left.other, block |-> left.blocks]
        keys == { key \in Keys : has[KindOf(key)] > 0 }
        all == UNION { [1..n -> keys] : n \in 0..MaxPageLen }
    IN { page \in all : \A kind \in DOMAIN has : Count(page, kind) <= has[kind] }

\* A small store of chunk records; a mixed store; a bulk store with more
\* keys than MAX_KEYS; an endless store, which hands out a cursor on every
\* page.
Stores ==
    { [scored |-> MaxScored, other |-> 0, blocks |-> 0, cursors |-> MaxCursors],
      [scored |-> MaxBulkScored, other |-> MaxOther, blocks |-> 0,
       cursors |-> MaxCursors],
      [scored |-> MaxBulkScored, other |-> 0, blocks |-> MaxBlocks,
       cursors |-> MaxCursors],
      [scored |-> 0, other |-> MaxOther, blocks |-> 0,
       cursors |-> MAX_LIST_PAGES + 1] }

\* -------------------------------------------------------------- responses
\* A response is the events enqueued on its stream and whether the stream
\* has been closed after them.
NoResponse == [kind |-> "none", events |-> <<>>, closed |-> FALSE]
\* A fault that leaves fetch as a rejected promise.
Unhandled == [kind |-> "exception", events |-> <<>>, closed |-> FALSE]
\* The relayed upstream stream (RelaySpec), which the relay writes and closes.
Streamed == [kind |-> "stream", events |-> <<>>, closed |-> FALSE]

\* A synthetic response that is never completed.
sseText_NoCompleted(text) ==
    [kind |-> "sse",
     events |-> << [type |-> "response.output_text.delta", delta |-> text] >>,
     closed |-> TRUE]

\* text is the sequence of the parts the message is concatenated from.
sseText(text) ==
    [kind |-> "sse",
     events |-> << [type |-> "response.output_text.delta", delta |-> text],
                   [type |-> "response.completed", delta |-> <<>>] >>,
     closed |-> TRUE]

\* An error response made of a response.error event.
sseError_ErrorEvent(text) ==
    [kind |-> "sse",
     events |-> << [type |-> "response.error", delta |-> text] >>,
     closed |-> TRUE]

sseError(text) == sseText(<<"[Error] ">> \o text)

\* No fault raised.
NoFault == [raised |-> FALSE, message |-> "", str |-> ""]

\* -------------------------------------------------------------- Retriever
\* A remainder that never reaches 0.
Remaining_AtLeastOne(done) == Max(1, MAX_KEYS - done)

\* Math.max(0, MAX_KEYS - processed)
Remaining(done) == Max(0, MAX_KEYS - done)

RECURSIVE KeyCount(_)
KeyCount(keys) ==
    IF keys = <<>> THEN 0 ELSE Head(keys).n + KeyCount(Tail(keys))

\* The slice without its cap.
SliceKeys_NoCap(keys, remaining) == keys

\* keys.slice(0, remaining)
RECURSIVE SliceKeys(_, _)
SliceKeys(keys, remaining) ==
    IF keys = <<>> \/ remaining <= 0 THEN <<>>
    ELSE IF Head(keys).n <= remaining
         THEN <<Head(keys)>> \o SliceKeys(Tail(keys), remaining - Head(keys).n)
         ELSE << [Head(keys) EXCEPT !.n = remaining] >>

\* A batch whose results stand in the order in which the gets completed.
BatchOf_CompletionOrder(keys, order) == [j \in 1..Len(order) |-> keys[order[j]]]

\* Promise.all: the results stand in the order of the promises, that of the
\* keys of the slice, whatever the order in which the gets completed.
BatchOf(keys, order) == keys

\* A batch that keeps an item, with the lowest score, for a value that is
\* not JSON.
RECURSIVE Items_KeepUnparsed(_, _, _)
Items_KeepUnparsed(keys, q, next) ==
    IF keys = <<>> THEN <<>>
    ELSE IF Head(keys).k \in {"json", "badjson"}
         THEN << [id |-> next, score |-> CosineSim(q, Head(keys).emb),
                   real |-> Head(keys).emb.present] >>
              \o Items_KeepUnparsed(Tail(keys), q, next + 1)
         ELSE Items_KeepUnparsed(Tail(keys), q, next)

\* What the page's batch adds to candidates: one item per key whose value
\* is present and parses, in key order.  id is the chunk's id, taken to be
\* its ordinal among the chunks discovered; real tells whether the record
\* has an embedding.
RECURSIVE Items(_, _, _)
Items(keys, q, next) ==
    IF keys = <<>> THEN <<>>
    ELSE IF Head(keys).k = "json"
         THEN << [id |-> next, score |-> CosineSim(q, Head(keys).emb),
                   real |-> Head(keys).emb.present] >>
              \o Items(Tail(keys), q, next + 1)
         ELSE Items(Tail(keys), q, next)

\* An insertion that puts a candidate before the equal-score ones found
\* before it.
RECURSIVE InsertDesc_Unstable(_, _)
InsertDesc_Unstable(x, s) ==
    IF s = <<>> THEN <<x>>
    ELSE IF Head(s).score > x.score
         THEN <<Head(s)>> \o InsertDesc_Unstable(x, Tail(s))
         ELSE <<x>> \o s

\* candidates.sort((a, b) => b.score - a.score): a stable sort.
RECURSIVE InsertDesc(_, _)
InsertDesc(x, s) ==
    IF s = <<>> THEN <<x>>
    ELSE IF Head(s).score >= x.score
         THEN <<Head(s)>> \o InsertDesc(x, Tail(s))
         ELSE <<x>> \o s

RECURSIVE SortDesc(_)
SortDesc(s) ==
    IF s = <<>> THEN <<>>
    ELSE InsertDesc(s[Len(s)], SortDesc(SubSeq(s, 1, Len(s) - 1)))

AboveMin(c) == c.score >= MIN_SIM
StrictlyAboveMin(c) == c.score > MIN_SIM

\* The selection without the floor.
TopOf_NoFloor(sorted) == SubSeq(sorted, 1, Min(TOP_K, Len(sorted)))

\* The selection with a strict floor.
TopOf_StrictFloor(sorted) ==
    LET kept == SelectSeq(sorted, StrictlyAboveMin)
    IN SubSeq(kept, 1, Min(TOP_K, Len(kept)))

\* candidates.filter(c => c.score >= MIN_SIM).slice(0, TOP_K)
TopOf(sorted) ==
    LET kept == SelectSeq(sorted, AboveMin)
    IN SubSeq(kept, 1, Min(TOP_K, Len(kept)))

\* The response for an empty RetrievalResult.
RefusalResponse == sseText(<<MSG_REFUSAL>>)
\* A catch that reports a fault as "nothing found".
CatchResponse_Downgrade == RefusalResponse
\* The response of the catch around the scan.
CatchResponse == sseError(<<MSG_UNAVAILABLE>>)

\* ---------------------------------------------------------------- handler
RelayIdle ==
    /\ rpc = "idle"
    /\ frames = <<>>
    /\ tail = <<>>
    /\ pos = 0
    /\ pend = <<>>
    /\ buf = <<>>
    /\ out = <<>>
    /\ settled = 0
    /\ clientGone = FALSE
    /\ fault = NoFault
    /\ closes = 0
    /\ cutDelim = FALSE
    /\ cutChar = FALSE

SimIdle ==
    /\ argA = NoVec
    /\ argB = NoVec
    /\ sim = [done |-> FALSE, value |-> 0]

\* chunkText is not running.
ChunkIdle ==
    /\ ctext = [len |-> 0, blank |-> FALSE]
    /\ ci = 0
    /\ chunks = <<>>
    /\ cmore = 0
    /\ cpc = "idle"
    /\ chunked = <<>>

\* No chat-completions relay is running.
ChatIdle ==
    /\ wpc = "idle"
    /\ upLeft = <<>>
    /\ batch = <<>>
    /\ wout = <<>>
    /\ hbOn = FALSE
    /\ beats = 0
    /\ wcloses = 0
    /\ wgone = FALSE

\* No segment is being parsed on its own.
ParseIdle ==
    /\ segIn = <<>>
    /\ segOut = [done |-> FALSE, evt |-> [event |-> <<>>, data |-> <<>>]]

\* The calls of fetch that run at once.
Reqs == {1, 2}

\* The bindings of an activation of fetch when its scan starts.  cursor is
\* the number of pages the store has handed out before it, 0 for undefined.
FreshLocals == [cursor |-> 0, pages |-> 0, processed |-> 0, candidates |-> <<>>]

\* A request and how the services answer it: whether its query is empty,
\* how its embedding call ends and with which vector, how its generation
\* call ends.
Request(qEmpty, embed, vec, gen) ==
    [qEmpty |-> qEmpty, embed |-> embed, vec |-> vec, gen |-> gen]

\* A call of fetch at position p for the request q.
ReqState(p, q) ==
    [pc |-> p, q |-> q, slice |-> <<>>, pending |-> {}, calls |-> <<>>,
     response |-> NoResponse]

ConcIdle ==
    /\ worker = [keyOk |-> FALSE, kvBound |-> FALSE, store |-> <<>>]
    /\ reqs = [r \in Reqs |-> ReqState("idle", Request(TRUE, "null", NoVec, "stream"))]
    /\ locals = [f \in Reqs |-> FreshLocals]

\* A response that is not an event stream of the handler's making: a plain
\* text with a status, or the upstream body handed on as it is.
Plain(kind, status, text) == [kind |-> kind, status |-> status, text |-> text]

\* A call of the variant at position p, before its retrieval.  input is
\* what groundedInput holds: "none" (null), "grounded", or "plain" for the
\* messages of the request.
FallbackState(p) ==
    [pc |-> p, queryVec |-> NoVec, cursor |-> 0, pages |-> 0, candidates |-> <<>>,
     slice |-> <<>>, pending |-> {}, fault |-> "none", input |-> "none",
     genCalls |-> 0, response |-> Plain("none", 0, "")]

FallbackIdle ==
    /\ fenv = [keyOk |-> FALSE, kvBound |-> FALSE, qEmpty |-> TRUE]
    /\ fstore = <<>>
    /\ fb = FallbackState("idle")

\* A request has arrived.
HandlerStart ==
    /\ pc = "start"
    /\ queryVec = NoVec
    /\ cursor = FALSE
    /\ pages = 0
    /\ processed = 0
    /\ candidates = <<>>
    /\ slice = <<>>
    /\ pending = {}
    /\ arrived = <<>>
    /\ top = <<>>
    /\ ranked = FALSE
    /\ faulted = FALSE
    /\ response = NoResponse
    /\ embedResp = "none"
    /\ upstream = "none"
    /\ embedCalls = 0
    /\ listCalls = 0
    /\ getCalls = 0
    /\ genCalls = 0

Init ==
    /\ RelayIdle
    /\ SimIdle
    /\ ChunkIdle
    /\ ChatIdle
    /\ ParseIdle
    /\ ConcIdle
    /\ FallbackIdle
    /\ HandlerStart
    /\ env \in [keyOk : BOOLEAN, kvBound : BOOLEAN, qEmpty : BOOLEAN]
    /\ storeLeft \in Stores

Return(r) ==
    /\ response' = r
    /\ pc' = "done"

\* Guards that let an empty query through.
GuardFailure_NoQueryCheck(e) ==
    IF ~e.keyOk THEN MSG_NO_KEY
    ELSE IF ~e.kvBound THEN MSG_NO_KV
    ELSE ""

\* The guards: the message of the first one that fails, "" when none does.
\* keyOk is OPENAI_API_KEY?.startsWith("sk-"), FALSE for a missing key and
\* for a malformed one.
GuardFailure(e) ==
    IF ~e.keyOk THEN MSG_NO_KEY
    ELSE IF ~e.kvBound THEN MSG_NO_KV
    ELSE IF e.qEmpty THEN MSG_EMPTY
    ELSE ""

\* Guards, then the embedding call is issued.
Guards ==
    /\ pc = "start"
    /\ IF GuardFailure(env) # ""
       THEN Return(sseError(<<GuardFailure(env)>>)) /\ UNCHANGED embedCalls
       ELSE /\ embedCalls' = embedCalls + 1
            /\ pc' = "embed"
            /\ UNCHANGED response
    /\ UNCHANGED <<env, storeLeft, queryVec, cursor, pages, processed, candidates,
                   slice, pending, arrived, top, ranked, faulted, embedResp, upstream,
                   listCalls, getCalls, genCalls>>
    /\ UNCHANGED <<rvars, ovars>>

\* An embedding step that calls the service a second time when the first
\* call yields no vector.
EmbedReturns_Retry ==
    /\ pc = "embed"
    /\ \E outcome \in {"vector", "null", "throw"} :
         /\ embedResp' = outcome
         /\ CASE outcome = "vector" ->
                  /\ queryVec' = QueryVec
                  /\ listCalls' = listCalls + 1
                  /\ pc' = "list"
                  /\ UNCHANGED <<response, embedCalls>>
             [] outcome = "null" /\ embedCalls < 2 ->
                  /\ embedCalls' = embedCalls + 1
                  /\ UNCHANGED <<pc, response, queryVec, listCalls>>
             [] outcome = "null" /\ embedCalls >= 2 ->
                  /\ Return(sseError(<<MSG_EMBED>>))
                  /\ UNCHANGED <<queryVec, listCalls, embedCalls>>
             [] OTHER ->
                  /\ Return(Unhandled)
                  /\ UNCHANGED <<queryVec, listCalls, embedCalls>>
    /\ UNCHANGED <<env, storeLeft, cursor, pages, processed, candidates, slice,
                   pending, arrived, top, ranked, faulted, upstream, getCalls, genCalls>>
    /\ UNCHANGED <<rvars, ovars>>

\* embedText returns: a vector, in which case the first list call is issued;
\* null (status not ok, or no vector in the body); or its fetch, or the
\* read of its body, raises.
EmbedReturns ==
    /\ pc = "embed"
    /\ \E outcome \in {"vector", "null", "throw"} :
         /\ embedResp' = outcome
         /\ CASE outcome = "vector" ->
                  /\ queryVec' = QueryVec
                  /\ listCalls' = listCalls + 1
                  /\ pc' = "list"
                  /\ UNCHANGED response
             [] outcome = "null" ->
                  /\ Return(sseError(<<MSG_EMBED>>))
                  /\ UNCHANGED <<queryVec, listCalls>>
             [] OTHER ->
                  /\ Return(Unhandled)
                  /\ UNCHANGED <<queryVec, listCalls>>
    /\ UNCHANGED <<env, storeLeft, cursor, pages, processed, candidates, slice,
                   pending, arrived, top, ranked, faulted, upstream, embedCalls, getCalls,
                   genCalls>>
    /\ UNCHANGED <<rvars, ovars>>

\* A loop condition without the cap on pages.
LoopAgain_NoPageCap(cur, pgs) == cur

\* The loop condition after a page.
LoopAgain(cur, pgs) == cur /\ pgs < MAX_LIST_PAGES

\* list raises: the catch around the scan returns.
ListFaults ==
    /\ pc = "list"
    /\ faulted' = TRUE
    /\ Return(CatchResponse)
    /\ UNCHANGED <<env, storeLeft, queryVec, cursor, pages, processed, candidates,
                   slice, pending, arrived, top, ranked, embedResp, upstream, embedCalls,
                   listCalls, getCalls, genCalls>>
    /\ UNCHANGED <<rvars, ovars>>

\* list returns a page: cursor, pages++, the break on remaining <= 0, and
\* the get of every key of the slice is issued.  A scan that has listed
\* more than MAX_LIST_PAGES pages is not followed further.
ListReturns ==
    /\ pc = "list"
    /\ pages <= MAX_LIST_PAGES
    /\ \E page \in PagesOf(storeLeft), cur \in BOOLEAN :
         /\ cur => storeLeft.cursors > 0
         /\ storeLeft' = After(page, cur, storeLeft)
         /\ cursor' = cur
         /\ pages' = pages + 1
         /\ IF Remaining(processed) <= 0
            THEN /\ pc' = "rank"
                 /\ UNCHANGED <<slice, pending, arrived, getCalls>>
            ELSE /\ slice' = SliceKeys(page, Remaining(processed))
                 /\ pending' = 1..Len(slice')
                 /\ arrived' = <<>>
                 /\ getCalls' = getCalls + KeyCount(slice')
                 /\ pc' = "gets"
    /\ UNCHANGED <<env, queryVec, processed, candidates, top, ranked, faulted,
                   response, embedResp, upstream, embedCalls, listCalls, genCalls>>
    /\ UNCHANGED <<rvars, ovars>>

\* The get of one key of the slice returns or raises; a fault rejects the
\* Promise.all and the catch around the scan returns.
GetReturns ==
    /\ pc = "gets"
    /\ \E i \in pending :
         IF slice[i].k = "fault"
         THEN /\ faulted' = TRUE
              /\ Return(CatchResponse)
              /\ UNCHANGED <<pending, arrived>>
         ELSE /\ pending' = pending \ {i}
              /\ arrived' = Append(arrived, i)
              /\ UNCHANGED <<faulted, response, pc>>
    /\ UNCHANGED <<env, storeLeft, queryVec, cursor, pages, processed, candidates,
                   slice, top, ranked, embedResp, upstream, embedCalls, listCalls,
                   getCalls, genCalls>>
    /\ UNCHANGED <<rvars, ovars>>

\* Promise.all resolves: the batch is folded into candidates in key order,
\* and the next list call is issued when the loop goes on.
BatchResolved ==
    /\ pc = "gets"
    /\ pending = {}
    /\ candidates' = candidates
                      \o Items(BatchOf(slice, arrived), queryVec, Len(candidates) + 1)
    /\ processed' = processed + KeyCount(slice)
    /\ slice' = <<>>
    /\ IF LoopAgain(cursor, pages)
       THEN pc' = "list" /\ listCalls' = listCalls + 1
       ELSE pc' = "rank" /\ UNCHANGED listCalls
    /\ UNCHANGED <<env, storeLeft, queryVec, cursor, pages, pending, arrived, top, ranked,
                   faulted, response, embedResp, upstream, embedCalls, getCalls,
                   genCalls>>
    /\ UNCHANGED <<rvars, ovars>>

\* A check that never refuses.
IsEmptyResult_Never(t) == FALSE

\* top.length === 0
IsEmptyResult(t) == Len(t) = 0

\* Sort, filter, slice; the refusal, or the generation call is issued.
Rank ==
    /\ pc = "rank"
    /\ candidates' = SortDesc(candidates)
    /\ top' = TopOf(candidates')
    /\ ranked' = TRUE
    /\ IF IsEmptyResult(top')
       THEN Return(RefusalResponse) /\ UNCHANGED genCalls
       ELSE /\ genCalls' = genCalls + 1
            /\ pc' = "gen"
            /\ UNCHANGED response
    /\ arrived' = <<>>
    /\ UNCHANGED <<env, storeLeft, queryVec, cursor, pages, processed, slice,
                   pending, faulted, embedResp, upstream, embedCalls, listCalls,
                   getCalls>>
    /\ UNCHANGED <<rvars, ovars>>

\* The generation call returns a stream; a status that is not ok (or no
\* body), whose text goes into the response; or the fetch, or the read of
\* that text, raises.
GenReturns ==
    /\ pc = "gen"
    /\ \E outcome \in {"stream", "notok", "throw"} :
         /\ upstream' = outcome
         /\ Return(CASE outcome = "stream" -> Streamed
                     [] outcome = "notok" -> sseError(<<MSG_OPENAI, "txt">>)
                     [] OTHER -> Unhandled)
    /\ UNCHANGED <<env, storeLeft, queryVec, cursor, pages, processed, candidates,
                   slice, pending, arrived, top, ranked, faulted, embedResp, embedCalls,
                   listCalls, getCalls, genCalls>>
    /\ UNCHANGED <<rvars, ovars>>

Next ==
    \/ Guards
    \/ EmbedReturns
    \/ ListFaults
    \/ ListReturns
    \/ GetReturns
    \/ BatchResolved
    \/ Rank
    \/ GenReturns

Spec == Init /\ [][Next]_vars

\* Every list call and every get call that is awaited returns or raises,
\* and the continuation of a settled Promise.all runs.
FairSpec ==
    /\ Init
    /\ [][Next]_vars
    /\ WF_vars(ListReturns)
    /\ WF_vars(GetReturns)
    /\ WF_vars(BatchResolved)

\* ------------------------------------------------------------ StreamRelay
\* Bytes: "N" line break, "D" the field name "data:", "E" the field name
\* "event:", " " a space, "h" "l" the two bytes of a no-break space, and
\* the JSON payloads
\*   "t"  a response.output_text.delta object with a non-empty delta
\*   "z"  a response.output_text.delta object whose delta is ""
\*   "c"  a response.completed object
\*   "e"  a response.error object with an error payload
\*   "f"  a response.error object without an error payload
\*   "u"  an object of another type
\*   "x"  text that is not JSON
\*   "<" ">"  the two halves of a response.completed object, cut between
\*        two of its tokens
\* Decoded text has "_" for the no-break space and "?" for U+FFFD.

\* A decoder that forgets an unfinished character at the end of a chunk.
RECURSIVE Decode_NoStream(_, _)
Decode_NoStream(held, bytes) ==
    IF bytes = <<>> THEN [text |-> IF held = <<>> THEN <<>> ELSE <<"?">>, pend |-> <<>>]
    ELSE LET b == Head(bytes)
         IN IF held # <<>>
            THEN IF b = "l"
                 THEN LET r == Decode_NoStream(<<>>, Tail(bytes))
                      IN [r EXCEPT !.text = <<"_">> \o @]
                 ELSE LET r == Decode_NoStream(<<>>, bytes)
                      IN [r EXCEPT !.text = <<"?">> \o @]
            ELSE IF b = "h" THEN Decode_NoStream(<<"h">>, Tail(bytes))
            ELSE LET r == Decode_NoStream(<<>>, Tail(bytes))
                 IN [r EXCEPT !.text = <<(IF b = "l" THEN "?" ELSE b)>> \o @]

\* decoder.decode(value, { stream: true }) with the decoder holding `held`:
\* the text, and the bytes held back for the next call.
RECURSIVE Decode(_, _)
Decode(held, bytes) ==
    IF bytes = <<>> THEN [text |-> <<>>, pend |-> held]
    ELSE LET b == Head(bytes)
         IN IF held # <<>>
            THEN IF b = "l"
                 THEN LET r == Decode(<<>>, Tail(bytes))
                      IN [r EXCEPT !.text = <<"_">> \o @]
                 ELSE LET r == Decode(<<>>, bytes)
                      IN [r EXCEPT !.text = <<"?">> \o @]
            ELSE IF b = "h" THEN Decode(<<"h">>, Tail(bytes))
            ELSE LET r == Decode(<<>>, Tail(bytes))
                 IN [r EXCEPT !.text = <<(IF b = "l" THEN "?" ELSE b)>> \o @]

\* buf.indexOf("\n\n"), counted from 1; 0 when there is none.
IndexOfDelimiter(b) ==
    LET hits == { i \in 1..(Len(b) - 1) : b[i] = "N" /\ b[i + 1] = "N" }
    IN IF hits = {} THEN 0 ELSE CHOOSE i \in hits : \A j \in hits : i <= j

\* raw.split("\n")
RECURSIVE SplitLines(_)
SplitLines(raw) ==
    LET breaks == { i \in 1..Len(raw) : raw[i] = "N" }
    IN IF breaks = {} THEN <<raw>>
       ELSE LET i == CHOOSE k \in breaks : \A j \in breaks : k <= j
            IN <<SubSeq(raw, 1, i - 1)>> \o SplitLines(SubSeq(raw, i + 1, Len(raw)))

IsSpace(ch) == ch \in {" ", "_"}

\* String.prototype.trim
RECURSIVE TrimLeft(_)
TrimLeft(s) == IF s # <<>> /\ IsSpace(Head(s)) THEN TrimLeft(Tail(s)) ELSE s

RECURSIVE TrimRight(_)
TrimRight(s) ==
    IF s # <<>> /\ IsSpace(s[Len(s)]) THEN TrimRight(SubSeq(s, 1, Len(s) - 1)) ELSE s

Trim(s) == TrimRight(TrimLeft(s))

\* The for loop over the lines of a segment.
RECURSIVE ParseLines(_, _)
ParseLines(lines, evt) ==
    IF lines = <<>> THEN evt
    ELSE LET line == Head(lines)
             next ==
                 IF line # <<>> /\ Head(line) = "E"
                 THEN [evt EXCEPT !.event = Trim(Tail(line))]
                 ELSE IF line # <<>> /\ Head(line) = "D"
                 THEN [evt EXCEPT !.data =
                          @ \o (IF @ # <<>> THEN <<"N">> ELSE <<>>) \o Trim(Tail(line))]
                 ELSE evt
         IN ParseLines(Tail(lines), next)

ParseSegment(raw) == ParseLines(SplitLines(raw), [event |-> <<>>, data |-> <<>>])

\* JSON.parse and the reads of obj.type, obj.delta, obj.error; ok is FALSE
\* when the try block throws.
NotJsonSpace(ch) == ch \notin {" ", "N"}

JsonParse(data) ==
    LET core == SelectSeq(data, NotJsonSpace)
    IN CASE core = <<"t">> ->
              [ok |-> TRUE, type |-> "response.output_text.delta", delta |-> "x", error |-> ""]
         [] core = <<"z">> ->
              [ok |-> TRUE, type |-> "response.output_text.delta", delta |-> "", error |-> ""]
         [] core = <<"c">> \/ core = <<"<", ">">> ->
              [ok |-> TRUE, type |-> "response.completed", delta |-> "", error |-> ""]
         [] core = <<"e">> ->
              [ok |-> TRUE, type |-> "response.error", delta |-> "", error |-> "upstream"]
         [] core = <<"f">> ->
              [ok |-> TRUE, type |-> "response.error", delta |-> "", error |-> ""]
         [] core = <<"u">> ->
              [ok |-> TRUE, type |-> "response.created", delta |-> "", error |-> ""]
         [] OTHER ->
              [ok |-> FALSE, type |-> "", delta |-> "", error |-> ""]

\* A client event, and none.
Event(type, body) == [type |-> type, body |-> body]
NoEvent == Event("none", "")

\* A mapping that reports a payload that does not parse as an error.
MapEvent_ErrorOnBadJson(obj) ==
    IF ~obj.ok THEN Event("response.error", "invalid JSON")
    ELSE IF obj.type = "response.output_text.delta" /\ obj.delta # ""
         THEN Event(obj.type, obj.delta)
    ELSE IF obj.type = "response.completed"
         THEN Event(obj.type, "")
    ELSE IF obj.type = "response.error" /\ obj.error # ""
         THEN Event(obj.type, obj.error)
    ELSE NoEvent

\* A mapping that forwards every parsed event.
MapEvent_All(obj) == IF obj.ok THEN Event(obj.type, obj.delta) ELSE NoEvent

\* The event a parsed payload is forwarded as.
MapEvent(obj) ==
    IF ~obj.ok THEN NoEvent
    ELSE IF obj.type = "response.output_text.delta" /\ obj.delta # ""
         THEN Event(obj.type, obj.delta)
    ELSE IF obj.type = "response.completed"
         THEN Event(obj.type, "")
    ELSE IF obj.type = "response.error" /\ obj.error # ""
         THEN Event(obj.type, obj.error)
    ELSE NoEvent

\* A relay that takes the event name of a segment for the type of its event.
SegmentEvent_ByEventName(raw) ==
    LET evt == ParseSegment(raw)
    IN IF evt.data = <<>> THEN NoEvent
       ELSE IF evt.event = <<"c">> THEN Event("response.completed", "")
       ELSE MapEvent(JsonParse(evt.data))

\* The event of one segment.
SegmentEvent(raw) ==
    LET evt == ParseSegment(raw)
    IN IF evt.data = <<>> THEN NoEvent ELSE MapEvent(JsonParse(evt.data))

\* A slice that drops one line break only.
RestAfter_KeepBreak(b, idx) == SubSeq(b, idx + 1, Len(b))

\* What is left of the buffer after the segment before the delimiter at idx.
RestAfter(b, idx) == SubSeq(b, idx + 2, Len(b))

\* The inner while loop up to its next await: segments are taken off the
\* buffer until one yields an event to write (ev) or no delimiter is left.
\* idx and ev are bound to their values, each computed once.
RECURSIVE Advance(_)
Advance(b) ==
    CHOOSE a \in
        { IF idx = 0 THEN [buf |-> b, ev |-> NoEvent]
          ELSE CHOOSE r \in
                 { IF ev = NoEvent THEN Advance(RestAfter(b, idx))
                   ELSE [buf |-> RestAfter(b, idx), ev |-> ev] :
                   ev \in {SegmentEvent(SubSeq(b, 1, idx - 1))} } : TRUE :
          idx \in {IndexOfDelimiter(b)} } : TRUE

\* The message alone, without the fallback.
FaultText_MessageOnly(e) == e.message

\* e?.message || String(e)
FaultText(e) == IF e.message # "" THEN e.message ELSE e.str

\* The faults a read can raise.
Faults ==
    { [raised |-> TRUE, message |-> "connection reset", str |-> "Error: connection reset"],
      [raised |-> TRUE, message |-> "", str |-> "Error"] }

\* The upstream frames: a segment on the wire.
Frames ==
    { <<"D", "t">>,
      <<"D", "c">>,
      <<"D", "e">>,
      <<"E", "N", "D", "u">>,
      <<"E", "c", "N", "D", "t">>,
      <<"D", "x">>,
      <<"D", "h", "l", "t">>,
      <<"D", "<", "N", "D", ">">>,
      <<"D", "z">>,
      <<"D", "f">> }

\* Bytes after the last frame.
Tails == { <<>>, <<"D", "t", "N">> }

\* The bytes of streams that are not made of frames.
RawBytes == {"N", "D", "t"}

SeqsUpTo(S, n) == UNION { [1..k -> S] : k \in 0..n }

RECURSIVE Wire(_)
Wire(fs) == IF fs = <<>> THEN <<>> ELSE Head(fs) \o <<"N", "N">> \o Wire(Tail(fs))

\* The upstream byte sequence.
Input == Wire(frames) \o tail

\* The relay starts: upstream.ok, the streams are set up and the first read
\* is issued.  The handler has returned the streamed response.
RelayInit ==
    /\ SimIdle
    /\ ChunkIdle
    /\ ChatIdle
    /\ ParseIdle
    /\ ConcIdle
    /\ FallbackIdle
    /\ pc = "done"
    /\ env = [keyOk |-> TRUE, kvBound |-> TRUE, qEmpty |-> FALSE]
    /\ storeLeft \in { st \in Stores : st.scored = MaxScored }
    /\ queryVec = QueryVec
    /\ cursor = FALSE
    /\ pages = 1
    /\ processed = 1
    /\ candidates = << [id |-> 1, score |-> SCALE, real |-> TRUE] >>
    /\ slice = <<>>
    /\ pending = {}
    /\ arrived = <<>>
    /\ top = candidates
    /\ ranked = TRUE
    /\ faulted = FALSE
    /\ response = Streamed
    /\ embedResp = "vector"
    /\ upstream = "stream"
    /\ embedCalls = 1
    /\ listCalls = 1
    /\ getCalls = 1
    /\ genCalls = 1
    /\ rpc = "read"
    /\ \/ frames \in SeqsUpTo(Frames, MaxFrames) /\ tail \in Tails
       \/ frames = <<>> /\ tail \in SeqsUpTo(RawBytes, MaxRaw)
    /\ pos = 0
    /\ pend = <<>>
    /\ buf = <<>>
    /\ out = <<>>
    /\ settled = 0
    /\ clientGone = FALSE
    /\ fault = NoFault
    /\ closes = 0
    /\ cutDelim = FALSE
    /\ cutChar = FALSE

\* A loop that does not await the write of an event before it takes the
\* next segment.
Continue_NoAwait(b) ==
    \E a \in {Advance(b)} :
      \E a2 \in {Advance(a.buf)} :
        IF a.ev = NoEvent
        THEN /\ buf' = a.buf
             /\ rpc' = "read"
             /\ UNCHANGED out
        ELSE /\ buf' = a2.buf
             /\ rpc' = IF a2.ev = NoEvent THEN "read" ELSE "write"
             /\ out' = out \o << [ev |-> a.ev, src |-> "loop"] >>
                           \o (IF a2.ev = NoEvent THEN <<>>
                               ELSE << [ev |-> a2.ev, src |-> "loop"] >>)

\* After a step of the loop: the next await is the write of ev, or the next
\* read when there is nothing to write.
Continue(b) ==
    \E a \in {Advance(b)} :
       /\ buf' = a.buf
       /\ IF a.ev = NoEvent
          THEN /\ rpc' = "read"
               /\ UNCHANGED out
          ELSE /\ rpc' = "write"
               /\ out' = Append(out, [ev |-> a.ev, src |-> "loop"])

\* The text read so far ends with the first line break of a delimiter whose
\* second line break is the next byte upstream sends.
EndsInsideDelimiter(text, n) ==
    /\ text # <<>> /\ text[Len(text)] = "N"
    /\ IndexOfDelimiter(text) = 0
    /\ n < Len(Input) /\ Input[n + 1] = "N"

\* reader.read() returns a chunk: any non-empty part of what upstream has
\* left to send.
ReadReturnsChunk ==
    /\ rpc = "read"
    /\ \E k \in 1..(Len(Input) - pos) :
         \E d \in {Decode(pend, SubSeq(Input, pos + 1, pos + k))} :
            /\ pos' = pos + k
            /\ pend' = d.pend
            /\ Continue(buf \o d.text)
            /\ cutChar' = (cutChar \/ d.pend # <<>>)
            /\ cutDelim' = (cutDelim \/ EndsInsideDelimiter(buf \o d.text, pos + k))
    /\ UNCHANGED <<hvars, ovars, settled, frames, tail, clientGone, fault, closes>>

\* An end of stream that parses what is left in the buffer as a last segment.
ReadReturnsDone_Flush ==
    /\ rpc = "read"
    /\ pos = Len(Input)
    /\ rpc' = "closing"
    /\ closes' = closes + 1
    /\ buf' = <<>>
    /\ out' = IF SegmentEvent(buf) = NoEvent THEN out
              ELSE Append(out, [ev |-> SegmentEvent(buf), src |-> "loop"])
    /\ UNCHANGED <<hvars, ovars, settled, frames, tail, pos, pend, clientGone, fault, cutDelim, cutChar>>

\* reader.read() returns done: the loop breaks and finally calls close.
ReadReturnsDone ==
    /\ rpc = "read"
    /\ pos = Len(Input)
    /\ rpc' = "closing"
    /\ closes' = closes + 1
    /\ UNCHANGED <<hvars, ovars, settled, frames, tail, pos, pend, buf, out, clientGone, fault, cutDelim, cutChar>>

\* reader.read() raises: the catch block writes the synthetic error event.
ReadFaults ==
    /\ rpc = "read"
    /\ \E e \in Faults :
         /\ fault' = e
         /\ out' = Append(out, [ev |-> Event("response.error", FaultText(e)),
                                src |-> "catch"])
    /\ rpc' = "catch"
    /\ UNCHANGED <<hvars, ovars, settled, frames, tail, pos, pend, buf, clientGone, closes, cutDelim, cutChar>>

\* A write of the loop returns or fails; a failure is caught by the try
\* around JSON.parse and the loop goes on.
WriteReturns ==
    /\ rpc = "write"
    /\ \E ok \in BOOLEAN :
         /\ ok => ~clientGone
         /\ clientGone' = (clientGone \/ ~ok)
    /\ settled' = settled + 1
    /\ Continue(buf)
    /\ UNCHANGED <<hvars, ovars, frames, tail, pos, pend, fault, closes, cutDelim, cutChar>>

\* A catch block that writes its event again when the write fails.
AfterCatch_Retry(ok) == IF ok THEN "closing" ELSE "catch"

\* A catch block whose failure skips the close.
AfterCatch_NoFinally(ok) == IF ok THEN "closing" ELSE "closed"

\* Where the relay goes once the write of the catch block has settled:
\* finally runs whether it failed or not.
AfterCatch(ok) == "closing"

\* The write of the catch block returns or fails; finally calls close.
CatchWriteReturns ==
    /\ rpc = "catch"
    /\ \E ok \in BOOLEAN :
         /\ ok => ~clientGone
         /\ clientGone' = (clientGone \/ ~ok)
         /\ rpc' = AfterCatch(ok)
         /\ closes' = IF rpc' = "closing" THEN closes + 1 ELSE closes
         /\ settled' = settled + (IF rpc' = "catch" THEN 0 ELSE 1)
    /\ UNCHANGED <<hvars, ovars, frames, tail, pos, pend, buf, out, fault, cutDelim, cutChar>>

\* writer.close() settles: the relay has finished.
CloseReturns ==
    /\ rpc = "closing"
    /\ rpc' = "closed"
    /\ UNCHANGED <<hvars, ovars, settled, frames, tail, pos, pend, buf, out, clientGone, fault, closes, cutDelim, cutChar>>

RelayNext ==
    \/ ReadReturnsChunk
    \/ ReadReturnsDone
    \/ ReadFaults
    \/ WriteReturns
    \/ CatchWriteReturns
    \/ CloseReturns

RelaySpec == RelayInit /\ [][RelayNext]_vars

\* Every upstream read settles (it returns a chunk, returns done or raises),
\* and the client keeps consuming, so that every write and the close settle.
RelayFairSpec ==
    /\ RelayInit
    /\ [][RelayNext]_vars
    /\ WF_vars(ReadFaults \/ ReadReturnsDone \/ ReadReturnsChunk)
    /\ WF_vars(WriteReturns)
    /\ WF_vars(CatchWriteReturns)
    /\ WF_vars(CloseReturns)

\* -------------------------------------------------------------- cosineSim
\* The arguments cosineSim is called with: vectors of lengths 0 to 3, the
\* zero vector among them.
SimVectors ==
    { Vec(<<>>), Vec(<<5>>), Vec(<<-2>>), Vec(<<0, 0>>), Vec(<<3, 4>>),
      Vec(<<4, -3>>), Vec(<<-3, -4>>), Vec(<<0, 5>>), Vec(<<-663, 616>>),
      Vec(<<-2400, -3200>>), Vec(<<1, 2, 2>>), Vec(<<2, -1, 2>>), Vec(<<2, 3, 6>>) }

SimInit ==
    /\ RelayIdle
    /\ ChunkIdle
    /\ ChatIdle
    /\ ParseIdle
    /\ ConcIdle
    /\ FallbackIdle
    /\ HandlerStart
    /\ env = [keyOk |-> TRUE, kvBound |-> TRUE, qEmpty |-> FALSE]
    /\ storeLeft \in { st \in Stores : st.scored = MaxScored }
    /\ argA \in SimVectors \cup {NoVec}
    /\ argB \in SimVectors \cup {NoVec}
    /\ sim = [done |-> FALSE, value |-> 0]

\* cosineSim(a, b) returns.
CosineSimReturns ==
    /\ ~sim.done
    /\ sim' = [done |-> TRUE, value |-> CosineSim(argA, argB)]
    /\ UNCHANGED <<hvars, rvars, argA, argB, cvars, wvars, pvars, xvars>>

SimNext == CosineSimReturns

SimSpec == SimInit /\ [][SimNext]_vars

\* -------------------------------------------------------------- chunkText
\* The default parameters of chunkText.
maxLen == 1200
overlap == 200

\* The handler with no request of its own in the runs of the other programs.
HandlerIdle ==
    /\ HandlerStart
    /\ env = [keyOk |-> TRUE, kvBound |-> TRUE, qEmpty |-> FALSE]
    /\ storeLeft \in { st \in Stores : st.scored = MaxScored }

\* The texts chunkText is called with: the empty text, texts shorter than
\* overlap and than maxLen, of a few chunks, made of letters or of white
\* space only.
TextLengths == {0, 1, 2, 199, 200, 201, 1000, 1199, 1200, 1201, 1400, 2400, 2401, 3000}

ChunkTexts == [len : TextLengths, blank : BOOLEAN]

\* The length of text.slice(from, to).trim().
TrimmedLen(t, from, to) == IF t.blank THEN 0 ELSE to - from

\* chunks.filter(Boolean): the empty strings are dropped.
NonEmpty(n) == n > 0

ChunkInit ==
    /\ RelayIdle
    /\ SimIdle
    /\ ChatIdle
    /\ ParseIdle
    /\ ConcIdle
    /\ FallbackIdle
    /\ HandlerIdle
    /\ ctext \in ChunkTexts
    /\ ci = 0
    /\ chunks = <<>>
    /\ cmore = 0
    /\ cpc = "loop"
    /\ chunked = <<>>

\* One iteration of the while loop.  chunks keeps the first MaxChunks
\* slices and cmore counts the later ones; the iteration itself is never
\* held back.
ChunkIterate ==
    /\ cpc = "loop"
    /\ ci < ctext.len
    /\ LET end == Min(ci + maxLen, ctext.len)
       IN /\ chunks' = IF Len(chunks) < MaxChunks
                       THEN Append(chunks, TrimmedLen(ctext, ci, end))
                       ELSE chunks
          /\ cmore' = IF Len(chunks) < MaxChunks THEN cmore ELSE 1 - cmore
          /\ ci' = Max(end - overlap, 0)
    /\ UNCHANGED <<hvars, rvars, svars, wvars, pvars, xvars, ctext, cpc, chunked>>

\* The loop condition fails and chunkText returns.
ChunkReturn ==
    /\ cpc = "loop"
    /\ ~(ci < ctext.len)
    /\ chunked' = SelectSeq(chunks, NonEmpty)
    /\ cpc' = "returned"
    /\ UNCHANGED <<hvars, rvars, svars, wvars, pvars, xvars, ctext, ci, chunks, cmore>>

ChunkNext ==
    \/ ChunkIterate
    \/ ChunkReturn

\* The loop runs on: an iteration that is due is executed.
ChunkSpec ==
    /\ ChunkInit
    /\ [][ChunkNext]_vars
    /\ WF_vars(ChunkIterate)
    /\ WF_vars(ChunkReturn)

\* ------------------------------------- the chat-completions relay (part_003)
\* Upstream is taken line by line: a read hands over the lines of the blocks
\* it completes, each line one of
\*   "tok"    data: a JSON object with a non-empty delta content
\*   "empty"  data: a JSON object without one
\*   "bad"    data: text that is not JSON
\*   "done"   data: [DONE]
\*   "other"  a line that does not start with data:
\* What follows the last "\n\n" stays in buffer and is never looked at.
ChatReads ==
    { <<>>, <<"tok">>, <<"other", "empty", "bad">>, <<"tok", "tok">>, <<"done">>,
      <<"tok", "done", "tok">> }

ChatInit ==
    /\ RelayIdle
    /\ SimIdle
    /\ ChunkIdle
    /\ ParseIdle
    /\ ConcIdle
    /\ FallbackIdle
    /\ HandlerIdle
    /\ wpc = "start"
    /\ upLeft \in SeqsUpTo(ChatReads, MaxReads)
    /\ batch = <<>>
    /\ wout = <<"start">>
    /\ hbOn = TRUE
    /\ beats = 0
    /\ wcloses = 0
    /\ wgone = FALSE

\* The lines from the first one that issues a write on.
RECURSIVE NextWrite(_)
NextWrite(b) ==
    IF b = <<>> THEN <<>>
    ELSE IF Head(b) \in {"tok", "done"} THEN b
    ELSE NextWrite(Tail(b))

\* The two for loops up to their next await.
ChatContinue(b) ==
    LET r == NextWrite(b)
    IN IF r = <<>>
       THEN /\ wpc' = "read"
            /\ batch' = <<>>
            /\ wout' = wout
       ELSE /\ wpc' = IF Head(r) = "tok" THEN "token" ELSE "done"
            /\ batch' = Tail(r)
            /\ wout' = Append(wout, Head(r))

\* How an awaited write settles: it is rejected once the writer has failed.
WriteSettles(ok) ==
    /\ ok \in (IF wgone THEN {FALSE} ELSE BOOLEAN)
    /\ wgone' = (wgone \/ ~ok)

\* The outer catch issues its write.
ChatCatch ==
    /\ wpc' = "catch"
    /\ wout' = Append(wout, "error")
    /\ UNCHANGED <<hbOn, wcloses>>

\* finally: clearInterval(hb); writer.close(), after closedBefore calls of
\* close in the try block.
ChatFinally(closedBefore) ==
    /\ hbOn' = FALSE
    /\ wcloses' = wcloses + closedBefore + 1
    /\ wout' = wout \o [k \in 1..(closedBefore + 1) |-> "close"]
    /\ wpc' = "closed"

\* The write of "event: start" settles.
ChatStartWritten ==
    /\ wpc = "start"
    /\ \E ok \in BOOLEAN :
         /\ WriteSettles(ok)
         /\ IF ok THEN wpc' = "read" /\ UNCHANGED <<wout, hbOn, wcloses>>
            ELSE ChatCatch
    /\ UNCHANGED <<hvars, rvars, svars, cvars, pvars, xvars, upLeft, batch, beats>>

\* reader.read() returns a chunk.
ChatReadReturns ==
    /\ wpc = "read"
    /\ upLeft # <<>>
    /\ upLeft' = Tail(upLeft)
    /\ ChatContinue(Head(upLeft))
    /\ UNCHANGED <<hvars, rvars, svars, cvars, pvars, xvars, hbOn, beats, wcloses, wgone>>

\* reader.read() returns done: the loop is left and the closing [DONE] is
\* written.
ChatReadDone ==
    /\ wpc = "read"
    /\ upLeft = <<>>
    /\ wpc' = "end"
    /\ wout' = Append(wout, "done")
    /\ UNCHANGED <<hvars, rvars, svars, cvars, pvars, xvars, upLeft, batch, hbOn, beats, wcloses, wgone>>

\* reader.read() raises.
ChatReadFaults ==
    /\ wpc = "read"
    /\ ChatCatch
    /\ UNCHANGED <<hvars, rvars, svars, cvars, pvars, xvars, upLeft, batch, beats, wgone>>

\* The write of a token settles; a rejection is caught by the inner try.
ChatTokenWritten ==
    /\ wpc = "token"
    /\ \E ok \in BOOLEAN : WriteSettles(ok)
    /\ ChatContinue(batch)
    /\ UNCHANGED <<hvars, rvars, svars, cvars, pvars, xvars, upLeft, hbOn, beats, wcloses>>

\* The write of [DONE] for an upstream [DONE] settles: clearInterval,
\* writer.close() and return, which runs finally.
ChatDoneWritten ==
    /\ wpc = "done"
    /\ \E ok \in BOOLEAN :
         /\ WriteSettles(ok)
         /\ IF ok THEN ChatFinally(1) ELSE ChatCatch
    /\ UNCHANGED <<hvars, rvars, svars, cvars, pvars, xvars, upLeft, batch, beats>>

\* The write of the closing [DONE] settles.
ChatEndWritten ==
    /\ wpc = "end"
    /\ \E ok \in BOOLEAN :
         /\ WriteSettles(ok)
         /\ IF ok THEN ChatFinally(0) ELSE ChatCatch
    /\ UNCHANGED <<hvars, rvars, svars, cvars, pvars, xvars, upLeft, batch, beats>>

\* The write of the catch block settles, either way.
ChatCatchWritten ==
    /\ wpc = "catch"
    /\ \E ok \in BOOLEAN : WriteSettles(ok)
    /\ ChatFinally(0)
    /\ UNCHANGED <<hvars, rvars, svars, cvars, pvars, xvars, upLeft, batch, beats>>

\* The interval fires while the relay waits.
Heartbeat ==
    /\ hbOn
    /\ beats < MaxBeats
    /\ beats' = beats + 1
    /\ wout' = Append(wout, "hb")
    /\ UNCHANGED <<hvars, rvars, svars, cvars, pvars, xvars, wpc, upLeft, batch, hbOn, wcloses, wgone>>

ChatNext ==
    \/ ChatStartWritten
    \/ ChatReadReturns
    \/ ChatReadDone
    \/ ChatReadFaults
    \/ ChatTokenWritten
    \/ ChatDoneWritten
    \/ ChatEndWritten
    \/ ChatCatchWritten
    \/ Heartbeat

ChatSpec == ChatInit /\ [][ChatNext]_vars

\* --------------------------------------------------- one segment, parsed
\* The lines of a segment: data lines that are empty, that carry JSON, with
\* and without white space around it, or text that is not JSON, and an
\* event line.
SegLines == { <<"D">>, <<"D", "t">>, <<"D", " ", "t", " ">>, <<"D", "x">>, <<"E", "u">> }

\* The segments: one to MaxLines lines.
Segments == UNION { [1..n -> SegLines] : n \in 1..MaxLines }

\* The text of a segment on the wire: its lines, each but the last followed
\* by a line break.
RECURSIVE RawOf(_)
RawOf(ls) ==
    IF ls = <<>> THEN <<>>
    ELSE IF Len(ls) = 1 THEN Head(ls)
    ELSE Head(ls) \o <<"N">> \o RawOf(Tail(ls))

ParseInit ==
    /\ RelayIdle
    /\ SimIdle
    /\ ChunkIdle
    /\ ChatIdle
    /\ HandlerIdle
    /\ ConcIdle
    /\ FallbackIdle
    /\ segIn \in Segments
    /\ segOut = [done |-> FALSE, evt |-> [event |-> <<>>, data |-> <<>>]]

\* The for loop over the lines of the segment has run.
ParseReturns ==
    /\ ~segOut.done
    /\ segOut' = [done |-> TRUE, evt |-> ParseSegment(RawOf(segIn))]
    /\ UNCHANGED <<hvars, rvars, svars, cvars, wvars, xvars, segIn>>

ParseNext == ParseReturns

ParseSpec == ParseInit /\ [][ParseNext]_vars

\* ------------------------------------------------------ concurrent calls
\* Two calls of fetch in one isolate, against the same bindings and the same
\* store, which nothing writes.  A step is what a call runs between two of
\* its awaits.

\* The key of a stored value: of a chunk record with the embedding e, of a
\* value that is not JSON (kind "badjson"), of a key whose get raises
\* (kind "fault").
StoredKey(kind, e) == [k |-> kind, n |-> 1, emb |-> e]

\* A page list returns: its keys and whether a cursor comes with it.
Page(keys, more) == [fault |-> FALSE, keys |-> keys, more |-> more]
\* A page on which list raises.
FaultyPage == [fault |-> TRUE, keys |-> <<>>, more |-> FALSE]

\* The stores: two pages of chunk records; one whose second list raises;
\* one with a key whose get raises; an empty one.
SharedStores ==
    { << Page(<< StoredKey("json", Vec(<<3, 4>>)), StoredKey("json", Vec(<<4, -3>>)) >>, TRUE),
         Page(<< StoredKey("json", Vec(<<-663, 616>>)), StoredKey("badjson", NoVec) >>, FALSE) >>,
      << Page(<< StoredKey("json", Vec(<<3, 4>>)) >>, TRUE), FaultyPage >>,
      << Page(<< StoredKey("json", Vec(<<4, -3>>)), StoredKey("fault", NoVec) >>, FALSE) >>,
      << Page(<<>>, FALSE) >> }

\* The bindings of the Worker: a bound store with a key, and the two
\* misconfigurations.
Workers ==
    { [keyOk |-> TRUE, kvBound |-> TRUE, store |-> st] : st \in SharedStores }
    \cup { [keyOk |-> FALSE, kvBound |-> TRUE, store |-> << Page(<<>>, FALSE) >>],
           [keyOk |-> TRUE, kvBound |-> FALSE, store |-> << Page(<<>>, FALSE) >>] }

\* The requests: an empty query; queries whose embedding call yields no
\* vector or raises; queries with two different embeddings, and the ways
\* the generation call can end.
Requests ==
    { Request(TRUE, "null", NoVec, "stream"),
      Request(FALSE, "null", NoVec, "stream"),
      Request(FALSE, "throw", NoVec, "stream"),
      Request(FALSE, "vector", Vec(<<3, 4>>), "stream"),
      Request(FALSE, "vector", Vec(<<3, 4>>), "notok"),
      Request(FALSE, "vector", Vec(<<3, 4>>), "throw"),
      Request(FALSE, "vector", Vec(<<4, -3>>), "stream") }

\* A request to a service, as the service sees it.
Call(to, cur, key, input) == [to |-> to, cursor |-> cur, key |-> key, input |-> input]
NoKey == StoredKey("none", NoVec)
EmbedCall == Call("embed", 0, NoKey, <<>>)
ListCall(cur) == Call("list", cur, NoKey, <<>>)
GetCall(key) == Call("get", 0, key, <<>>)
GenCall(result) == Call("gen", 0, NoKey, result)

\* slice.map(...): the get of every key of the slice, in key order.
GetCalls(ks) == [i \in 1..Len(ks) |-> GetCall(ks[i])]

\* Bindings declared at module level, which every call of fetch shares.
FrameOf_Module(r) == 1

\* The activation that holds the bindings of the call r: candidates, cursor,
\* pages and processed are declared inside fetch, so every call has its own.
FrameOf(r) == r

ConcInit ==
    /\ RelayIdle
    /\ SimIdle
    /\ ChunkIdle
    /\ ChatIdle
    /\ ParseIdle
    /\ HandlerIdle
    /\ FallbackIdle
    /\ worker \in Workers
    /\ reqs \in { [r \in Reqs |-> ReqState("start", qs[r])] : qs \in [Reqs -> Requests] }
    /\ locals = [f \in Reqs |-> FreshLocals]

\* The response of the generation call that ended with `outcome`.
GenResponse(outcome) ==
    CASE outcome = "stream" -> Streamed
      [] outcome = "notok" -> sseError(<<MSG_OPENAI, "txt">>)
      [] OTHER -> Unhandled

\* A call after the loop over the pages: sort, filter, slice; the
\* refusal, or the generation call is issued.
Ranked(st, sorted) ==
    IF IsEmptyResult(TopOf(sorted))
    THEN [st EXCEPT !.pc = "done", !.response = RefusalResponse]
    ELSE [st EXCEPT !.pc = "gen", !.calls = Append(@, GenCall(TopOf(sorted)))]

\* The call r runs from its start to its first await: the guards, then the
\* embedding call is issued.
ConcGuards(r) ==
    /\ reqs[r].pc = "start"
    /\ \E e \in { [keyOk |-> worker.keyOk, kvBound |-> worker.kvBound,
                   qEmpty |-> reqs[r].q.qEmpty] } :
         reqs' = [reqs EXCEPT ![r] =
                    IF GuardFailure(e) # ""
                    THEN [@ EXCEPT !.pc = "done",
                                   !.response = sseError(<<GuardFailure(e)>>)]
                    ELSE [@ EXCEPT !.pc = "embed", !.calls = Append(@, EmbedCall)]]
    /\ UNCHANGED <<worker, locals>>
    /\ UNCHANGED <<hvars, rvars, svars, cvars, wvars, pvars, fvars>>

\* embedText returns to the call r; with a vector the first list call is
\* issued.
ConcEmbedReturns(r) ==
    /\ reqs[r].pc = "embed"
    /\ reqs' = [reqs EXCEPT ![r] =
                  CASE @.q.embed = "vector" ->
                         [@ EXCEPT !.pc = "list",
                                   !.calls = Append(@, ListCall(locals[FrameOf(r)].cursor))]
                    [] @.q.embed = "null" ->
                         [@ EXCEPT !.pc = "done", !.response = sseError(<<MSG_EMBED>>)]
                    [] OTHER ->
                         [@ EXCEPT !.pc = "done", !.response = Unhandled]]
    /\ UNCHANGED <<worker, locals>>
    /\ UNCHANGED <<hvars, rvars, svars, cvars, wvars, pvars, fvars>>

\* list returns to the call r, or raises.
ConcListReturns(r) ==
    /\ reqs[r].pc = "list"
    /\ \E f \in {FrameOf(r)} :
       \E page \in {worker.store[locals[f].cursor + 1]} :
         IF page.fault
         THEN /\ reqs' = [reqs EXCEPT ![r] =
                            [@ EXCEPT !.pc = "done", !.response = CatchResponse]]
              /\ UNCHANGED locals
         ELSE IF Remaining(locals[f].processed) <= 0
         THEN \E sorted \in {SortDesc(locals[f].candidates)} :
              /\ locals' = [locals EXCEPT ![f] =
                              [@ EXCEPT !.cursor = IF page.more THEN @ + 1 ELSE 0,
                                        !.pages = @ + 1,
                                        !.candidates = sorted]]
              /\ reqs' = [reqs EXCEPT ![r] = Ranked(@, sorted)]
         ELSE \E ks \in {SliceKeys(page.keys, Remaining(locals[f].processed))} :
              /\ locals' = [locals EXCEPT ![f] =
                              [@ EXCEPT !.cursor = IF page.more THEN @ + 1 ELSE 0,
                                        !.pages = @ + 1]]
              /\ reqs' = [reqs EXCEPT ![r] =
                            [@ EXCEPT !.pc = "gets",
                                      !.slice = ks,
                                      !.pending = 1..Len(ks),
                                      !.calls = @ \o GetCalls(ks)]]
    /\ UNCHANGED worker
    /\ UNCHANGED <<hvars, rvars, svars, cvars, wvars, pvars, fvars>>

\* The get of one key of the slice of the call r returns or raises.
ConcGetReturns(r) ==
    /\ reqs[r].pc = "gets"
    /\ \E i \in reqs[r].pending :
         reqs' = [reqs EXCEPT ![r] =
                    IF @.slice[i].k = "fault"
                    THEN [@ EXCEPT !.pc = "done", !.response = CatchResponse]
                    ELSE [@ EXCEPT !.pending = @ \ {i}]]
    /\ UNCHANGED <<worker, locals>>
    /\ UNCHANGED <<hvars, rvars, svars, cvars, wvars, pvars, fvars>>

\* Promise.all resolves in the call r: the batch is pushed on candidates,
\* and the loop goes on with the next list call or ends.
ConcBatchResolved(r) ==
    /\ reqs[r].pc = "gets"
    /\ reqs[r].pending = {}
    /\ \E f \in {FrameOf(r)} :
       \E cands \in {locals[f].candidates
                       \o Items(reqs[r].slice, reqs[r].q.vec,
                                Len(locals[f].candidates) + 1)} :
         IF LoopAgain(locals[f].cursor # 0, locals[f].pages)
         THEN /\ locals' = [locals EXCEPT ![f] =
                              [@ EXCEPT !.candidates = cands,
                                        !.processed = @ + KeyCount(reqs[r].slice)]]
              /\ reqs' = [reqs EXCEPT ![r] =
                            [@ EXCEPT !.pc = "list",
                                      !.slice = <<>>,
                                      !.calls = Append(@, ListCall(locals[f].cursor))]]
         ELSE /\ locals' = [locals EXCEPT ![f] =
                              [@ EXCEPT !.candidates = SortDesc(cands),
                                        !.processed = @ + KeyCount(reqs[r].slice)]]
              /\ reqs' = [reqs EXCEPT ![r] =
                            Ranked([@ EXCEPT !.slice = <<>>], SortDesc(cands))]
    /\ UNCHANGED worker
    /\ UNCHANGED <<hvars, rvars, svars, cvars, wvars, pvars, fvars>>

\* The generation call of the call r returns or raises.
ConcGenReturns(r) ==
    /\ reqs[r].pc = "gen"
    /\ reqs' = [reqs EXCEPT ![r] =
                  [@ EXCEPT !.pc = "done", !.response = GenResponse(reqs[r].q.gen)]]
    /\ UNCHANGED <<worker, locals>>
    /\ UNCHANGED <<hvars, rvars, svars, cvars, wvars, pvars, fvars>>

ConcNext ==
    \E r \in Reqs :
       \/ ConcGuards(r)
       \/ ConcEmbedReturns(r)
       \/ ConcListReturns(r)
       \/ ConcGetReturns(r)
       \/ ConcBatchResolved(r)
       \/ ConcGenReturns(r)

ConcSpec == ConcInit /\ [][ConcNext]_vars

\* ------------------------------------------ the variant with a fallback
\* part_000: retrieval inside one try block whose catch replaces the
\* grounded input by the messages of the request.
FALLBACK_MAX_LIST_PAGES == 5
\* MIN_SCORE = -1, in hundredths.
MIN_SCORE == -100

\* The stores of the variant: those of the concurrent calls, and one that
\* hands out a cursor on every page.
FallbackStores ==
    SharedStores
    \cup { [i \in 1..(FALLBACK_MAX_LIST_PAGES + 1) |->
              Page(<< StoredKey("json", Vec(<<3, 4>>)) >>, TRUE)] }

FallbackInit ==
    /\ RelayIdle
    /\ SimIdle
    /\ ChunkIdle
    /\ ChatIdle
    /\ ParseIdle
    /\ ConcIdle
    /\ HandlerIdle
    /\ fenv \in [keyOk : BOOLEAN, kvBound : BOOLEAN, qEmpty : BOOLEAN]
    /\ fstore \in FallbackStores
    /\ fb = FallbackState("start")

\* A fault raised inside the try block: the catch sets groundedInput to the
\* messages of the request, and the generation call is issued.
FallbackCatch(st, why) ==
    [st EXCEPT !.fault = why, !.input = "plain", !.pc = "gen", !.genCalls = @ + 1]

\* item && item.score >= MIN_SCORE
AboveMinScore(c) == c.score >= MIN_SCORE

\* The end of the try block: the sort, the grounded input made of the first
\* TOP_K candidates, and the generation call is issued.
FallbackGrounded(st, cands) ==
    [st EXCEPT !.candidates = SortDesc(cands),
               !.input = "grounded", !.pc = "gen", !.genCalls = @ + 1]

\* The key check and the query check, the binding check inside the try
\* block, then the embedding call is issued.
FallbackGuards ==
    /\ fb.pc = "start"
    /\ fb' = IF ~fenv.keyOk
             THEN [fb EXCEPT !.pc = "done", !.response = Plain("error", 500, MSG_NO_KEY)]
             ELSE IF fenv.qEmpty
             THEN [fb EXCEPT !.pc = "done", !.response = Plain("error", 400, "Empty query")]
             ELSE IF ~fenv.kvBound THEN FallbackCatch(fb, "binding")
             ELSE [fb EXCEPT !.pc = "embed"]
    /\ UNCHANGED <<fenv, fstore>>
    /\ UNCHANGED <<hvars, rvars, svars, cvars, wvars, pvars, qvars>>

\* The embedding call returns a vector, a status that is not ok or a body
\* without a vector, or raises.
FallbackEmbedReturns ==
    /\ fb.pc = "embed"
    /\ \E outcome \in {"vector", "notok", "novector", "throw"} :
         fb' = IF outcome = "vector"
               THEN [fb EXCEPT !.pc = "list", !.queryVec = QueryVec]
               ELSE FallbackCatch(fb, "embed")
    /\ UNCHANGED <<fenv, fstore>>
    /\ UNCHANGED <<hvars, rvars, svars, cvars, wvars, pvars, qvars>>

\* list raises.
FallbackListFaults ==
    /\ fb.pc = "list"
    /\ fb' = FallbackCatch(fb, "list")
    /\ UNCHANGED <<fenv, fstore>>
    /\ UNCHANGED <<hvars, rvars, svars, cvars, wvars, pvars, qvars>>

\* list returns a page, or raises on a page the store cannot read; the get
\* of every key of the page is issued.
FallbackListReturns ==
    /\ fb.pc = "list"
    /\ \E page \in {fstore[fb.cursor + 1]} :
         fb' = IF page.fault THEN FallbackCatch(fb, "list")
               ELSE [fb EXCEPT !.cursor = IF page.more THEN @ + 1 ELSE 0,
                               !.pages = @ + 1,
                               !.slice = page.keys,
                               !.pending = 1..Len(page.keys),
                               !.pc = "gets"]
    /\ UNCHANGED <<fenv, fstore>>
    /\ UNCHANGED <<hvars, rvars, svars, cvars, wvars, pvars, qvars>>

\* The get of one key of the page returns or raises.
FallbackGetReturns ==
    /\ fb.pc = "gets"
    /\ \E i \in fb.pending :
         fb' = IF fb.slice[i].k = "fault" THEN FallbackCatch(fb, "get")
               ELSE [fb EXCEPT !.pending = @ \ {i}]
    /\ UNCHANGED <<fenv, fstore>>
    /\ UNCHANGED <<hvars, rvars, svars, cvars, wvars, pvars, qvars>>

\* Promise.all resolves: the items at or above MIN_SCORE are pushed, and
\* the loop goes on with the next list call or the try block ends.
FallbackBatchResolved ==
    /\ fb.pc = "gets"
    /\ fb.pending = {}
    /\ \E cands \in {fb.candidates
                       \o SelectSeq(Items(fb.slice, fb.queryVec, Len(fb.candidates) + 1),
                                    AboveMinScore)} :
         fb' = IF fb.cursor # 0 /\ fb.pages < FALLBACK_MAX_LIST_PAGES
               THEN [fb EXCEPT !.candidates = cands, !.slice = <<>>, !.pc = "list"]
               ELSE FallbackGrounded([fb EXCEPT !.slice = <<>>], cands)
    /\ UNCHANGED <<fenv, fstore>>
    /\ UNCHANGED <<hvars, rvars, svars, cvars, wvars, pvars, qvars>>

\* The generation call returns a stream, whose body is handed on; a status
\* that is not ok; or raises.
FallbackGenReturns ==
    /\ fb.pc = "gen"
    /\ \E outcome \in {"stream", "notok", "throw"} :
         fb' = [fb EXCEPT !.pc = "done",
                          !.response =
                             CASE outcome = "stream" -> Plain("stream", 200, "")
                               [] outcome = "notok" -> Plain("error", 502, MSG_OPENAI)
                               [] OTHER -> Plain("exception", 0, "")]
    /\ UNCHANGED <<fenv, fstore>>
    /\ UNCHANGED <<hvars, rvars, svars, cvars, wvars, pvars, qvars>>

FallbackNext ==
    \/ FallbackGuards
    \/ FallbackEmbedReturns
    \/ FallbackListFaults
    \/ FallbackListReturns
    \/ FallbackGetReturns
    \/ FallbackBatchResolved
    \/ FallbackGenReturns

FallbackSpec == FallbackInit /\ [][FallbackNext]_vars

\* ============================================================ the claims
Range(s) == { s[i] : i \in 1..Len(s) }

\* ---- C1: one retrieval pass issues at most MAX_LIST_PAGES list calls and
\* at most MAX_KEYS get calls, whatever the store returns.
C1_BoundedScan ==
    /\ listCalls <= MAX_LIST_PAGES
    /\ getCalls <= MAX_KEYS

\* The scan has stopped at the cap on keys, the store still having more.
C1_Witness ==
    /\ ranked
    /\ getCalls = MAX_KEYS
    /\ cursor

\* The scan has stopped at the cap on pages, the store still having more.
C1_PagesWitness ==
    /\ ranked
    /\ listCalls = MAX_LIST_PAGES
    /\ cursor

\* ---- C7: a fault of any list or get call aborts retrieval; the caller gets
\* the retrieval-unavailable response, which is not the response for an
\* empty RetrievalResult, and no request goes to the generation service.
C7_FaultAborts ==
    faulted =>
        /\ pc = "done"
        /\ ~ranked
        /\ response = sseError(<<MSG_UNAVAILABLE>>)
        /\ response # sseText(<<MSG_REFUSAL>>)
        /\ genCalls = 0

\* A get of a later page raised after candidates had been collected.
C7_Witness ==
    /\ faulted
    /\ pages >= 2
    /\ getCalls > processed
    /\ candidates # <<>>

\* ---- C8: the generation service is called only once the scan has completed
\* and only with a non-empty RetrievalResult; with no candidate at or above
\* MIN_SIM the handler returns the refusal and never calls it.
C8_GroundedOnly ==
    /\ genCalls > 0 =>
          /\ ranked
          /\ pc \in {"gen", "done"}
          /\ top # <<>>
    /\ (ranked /\ \A c \in Range(candidates) : c.score < MIN_SIM) =>
          /\ genCalls = 0
          /\ response = sseText(<<MSG_REFUSAL>>)

\* A store with chunks, all of them scoring below MIN_SIM, was refused.
C8_Witness ==
    /\ ranked
    /\ candidates # <<>>
    /\ \A c \in Range(candidates) : c.score < MIN_SIM
    /\ response = sseText(<<MSG_REFUSAL>>)

C11_ErrorEvent ==
    (embedResp = "null" \/ upstream = "notok") =>
        \E i \in 1..Len(response.events) : response.events[i].type = "response.error"

\* ---- C11 (amended): a non-success status of the embedding call or of the
\* generation call is reported to the caller as a synthetic response: one
\* response.output_text.delta event whose text is "[Error] " followed by the
\* message of the failing step, then response.completed; the response holds
\* no response.error event.
C11_ErrorAsText ==
    LET Reported(text) ==
            /\ pc = "done"
            /\ response.kind = "sse"
            /\ response.events =
                 << [type |-> "response.output_text.delta", delta |-> <<"[Error] ">> \o text],
                    [type |-> "response.completed", delta |-> <<>>] >>
    IN /\ embedResp = "null" => Reported(<<MSG_EMBED>>)
       /\ upstream = "notok" => Reported(<<MSG_OPENAI, "txt">>)

\* The generation call answered with a status that is not ok.
C11_Witness ==
    /\ upstream = "notok"
    /\ response.kind = "sse"

\* The embedding call answered with a status that is not ok.
C11_EmbedWitness ==
    /\ embedResp = "null"
    /\ response.kind = "sse"

\* ---- C12 (as claimed): whichever of the embedding call, the store calls and
\* the generation call fail, by a status or by a raised fault, the handler
\* returns an event stream that ends in a terminal event, and no fault
\* leaves the handler unhandled.
C12_NoFaultEscapes ==
    (pc = "done" /\ (embedResp \in {"null", "throw"} \/ faulted
                      \/ upstream \in {"notok", "throw"})) =>
        /\ response.kind = "sse"
        /\ response.events # <<>>
        /\ response.events[Len(response.events)].type
             \in {"response.completed", "response.error"}

\* ---- C13: when the API key is missing or malformed, the store binding is
\* missing or the query is empty, no request is issued to the embedding
\* service, to the store or to the generation service, and the handler
\* returns a synthetic response.
C13_RejectedBeforeAnyCall ==
    (~env.keyOk \/ ~env.kvBound \/ env.qEmpty) =>
        /\ embedCalls = 0
        /\ listCalls = 0
        /\ getCalls = 0
        /\ genCalls = 0
        /\ pc \in {"start", "done"}
        /\ pc = "done" => response.kind = "sse"

\* A request with a key and a store binding and an empty query was answered.
C13_Witness ==
    /\ pc = "done"
    /\ env.keyOk /\ env.kvBound /\ env.qEmpty
    /\ response = sseError(<<MSG_EMPTY>>)

\* ---- C14: a synthetic response is exactly one response.output_text.delta
\* event carrying the message, then exactly one response.completed event,
\* on a stream that is then closed; the step that returns it issues no
\* request to the embedding service, the store or the generation service.
SyntheticTexts ==
    { <<MSG_REFUSAL>>, <<"[Error] ", MSG_NO_KEY>>, <<"[Error] ", MSG_NO_KV>>,
      <<"[Error] ", MSG_EMPTY>>, <<"[Error] ", MSG_EMBED>>,
      <<"[Error] ", MSG_UNAVAILABLE>>, <<"[Error] ", MSG_OPENAI, "txt">> }

C14_SyntheticResponse ==
    [][ (response' # response /\ response'.kind = "sse") =>
          /\ Len(response'.events) = 2
          /\ response'.events[1].type = "response.output_text.delta"
          /\ response'.events[1].delta \in SyntheticTexts
          /\ response'.events[2].type = "response.completed"
          /\ response'.closed
          /\ <<embedCalls, listCalls, getCalls, genCalls>>'
               = <<embedCalls, listCalls, getCalls, genCalls>> ]_vars

\* The refusal was returned after a scan that fetched keys.
C14_Witness ==
    /\ response.kind = "sse"
    /\ response.events[1].delta = <<MSG_REFUSAL>>
    /\ getCalls > 0

\* ---- C15: per request at most one request goes to the embedding service
\* and at most one to the generation service, whatever their outcomes.
C15_NoRetry ==
    /\ embedCalls <= 1
    /\ genCalls <= 1
    /\ pc = "done" =>
          /\ embedCalls = (IF embedResp = "none" THEN 0 ELSE 1)
          /\ genCalls = (IF upstream = "none" THEN 0 ELSE 1)

\* Both services were called and the generation call failed.
C15_Witness ==
    /\ pc = "done"
    /\ upstream \in {"notok", "throw"}
    /\ embedCalls = 1
    /\ genCalls = 1

IsParsed(key) == key.k = "json"

\* ---- C21 (as claimed): once the number of processed keys has reached
\* MAX_KEYS, no further list call is issued.
C21_NoListAfterCap ==
    [][ processed' >= MAX_KEYS => listCalls' = listCalls ]_vars

\* ---- C21 (amended): when the number of processed keys reaches MAX_KEYS
\* with a cursor left and fewer than MAX_LIST_PAGES pages listed, exactly
\* one further list call is issued, whose page is discarded; after it no
\* list call and no get call is issued, and the scan goes on to ranking.
C21_OneListAfterCap ==
    [][ /\ (processed < MAX_KEYS /\ processed' >= MAX_KEYS) =>
              /\ getCalls' = getCalls
              /\ listCalls' = listCalls + (IF cursor /\ pages < MAX_LIST_PAGES THEN 1 ELSE 0)
        /\ processed >= MAX_KEYS =>
              /\ listCalls' = listCalls
              /\ getCalls' = getCalls
              /\ candidates' = candidates \/ pc = "rank"
              /\ pc' \in {pc, "rank", "gen", "done"} ]_vars

\* The cap on keys has been reached and one more list call is awaited.
C21_Witness ==
    /\ processed = MAX_KEYS
    /\ pc = "list"
    /\ listCalls = pages + 1

\* ---- C22: the retrieval loop terminates for every store, provided each
\* list and get call returns: a scan that is under way leads to ranking or
\* to the handler's return.
C22_LoopTerminates ==
    (pc \in {"list", "gets"}) ~> (pc \in {"rank", "gen", "done"})

\* A store that returned an empty page and a cursor MAX_LIST_PAGES times was
\* left at the cap on pages.
C22_Witness ==
    /\ ranked
    /\ pages = MAX_LIST_PAGES
    /\ cursor
    /\ processed = 0

\* ---- C23: for every order in which the gets of a page complete, the
\* candidates of the page are appended in the key order of the page.
C23_KeyOrder ==
    [][ (pc = "gets" /\ pending = {} /\ pc' # "gets") =>
          LET parsed == SelectSeq(slice, IsParsed)
          IN candidates' = candidates \o
               [j \in 1..Len(parsed) |->
                  [id |-> Len(candidates) + j,
                   score |-> CosineSim(queryVec, parsed[j].emb),
                   real |-> parsed[j].emb.present]] ]_vars

\* The get of the second key of a page completed before that of the first;
\* the two chunks were appended in key order, the lower score first.
C23_Witness ==
    /\ pc \in {"list", "rank"}
    /\ arrived = <<2, 1>>
    /\ Len(candidates) = 2
    /\ candidates[1].score < candidates[2].score

\* ---- C16: a key whose value is absent or is not JSON is skipped: the batch
\* of its page adds one candidate per key whose value parses, scored against
\* the query, and none for it; it raises no fault (only a get that raises
\* does); every key of the slice counts as processed and the loop goes on to
\* the next page as after any other page.
C16_BadValuesSkipped ==
    [][ /\ (pc = "gets" /\ pending = {} /\ pc' # "gets") =>
              LET parsed == SelectSeq(slice, IsParsed)
              IN /\ Len(candidates') = Len(candidates) + Len(parsed)
                 /\ SubSeq(candidates', 1, Len(candidates)) = candidates
                 /\ \A j \in 1..Len(parsed) :
                       candidates'[Len(candidates) + j].score
                         = CosineSim(queryVec, parsed[j].emb)
                 /\ processed' = processed + KeyCount(slice)
                 /\ ~faulted'
                 /\ pc' = (IF cursor /\ pages < MAX_LIST_PAGES THEN "list" ELSE "rank")
        /\ (pc = "gets" /\ ~faulted /\ faulted') =>
              \E i \in pending : slice[i].k = "fault" ]_vars

\* A first page held a skipped key and a chunk; the keys of the second
\* page, a chunk among them, are being fetched.
C16_Witness ==
    /\ pc = "gets"
    /\ pages = 2
    /\ candidates # <<>>
    /\ processed = Len(candidates) + 1
    /\ \E i \in 1..Len(slice) : IsParsed(slice[i])

\* ---- C17 (as claimed): a record that parses but has no embedding is not in
\* the RetrievalResult, and its score is below the score of every record
\* with a real embedding.
C17_DefaultBelowReal ==
    ranked =>
        \A c \in Range(candidates) :
            ~c.real =>
                /\ c \notin Range(top)
                /\ \A r \in Range(candidates) : r.real => c.score < r.score

\* ---- C17 (amended): a record that parses but has no embedding is not in
\* the RetrievalResult, and its default score is below the score of every
\* record of the RetrievalResult, each of which has a real embedding.
C17_DefaultBelowResult ==
    ranked =>
        /\ \A t \in Range(top) : t.real
        /\ \A c \in Range(candidates) :
              ~c.real =>
                  /\ c \notin Range(top)
                  /\ c.score = -SCALE
                  /\ \A t \in Range(top) : c.score < t.score

\* A record without an embedding was scanned, and the RetrievalResult has
\* room left.
C17_Witness ==
    /\ ranked
    /\ \E c \in Range(candidates) : ~c.real
    /\ top # <<>>
    /\ Len(top) < TOP_K

\* ---- C18: cosineSim returns exactly -1 whenever either argument is null or
\* undefined.
C18_NullGivesMinusOne ==
    (sim.done /\ (~argA.present \/ ~argB.present)) => sim.value = -SCALE

\* The first argument was absent, the second a vector.
C18_Witness ==
    /\ sim.done
    /\ ~argA.present
    /\ argB.present
    /\ argB.v # <<>>

\* ---- C19: for vectors a and b of equal length, cosineSim(a, b) equals
\* cosineSim(b, a).
C19_Symmetric ==
    (sim.done /\ argA.present /\ argB.present /\ Len(argA.v) = Len(argB.v)) =>
        sim.value = CosineSim(argB, argA)

\* Two different vectors of equal length with a score that is not 0.
C19_Witness ==
    /\ sim.done
    /\ argA = Vec(<<3, 4>>)
    /\ argB = Vec(<<-663, 616>>)
    /\ sim.value = MIN_SIM

\* ---------------------------------------------------- claims on the relay
\* The events written by the loop, and those written by the catch block.
FromLoop(w) == w.src = "loop"
FromCatch(w) == w.src = "catch"
EventsOf(ws) == [i \in 1..Len(ws) |-> ws[i].ev]
LoopEvents == EventsOf(SelectSeq(out, FromLoop))

IsPrefix(s, t) == Len(s) <= Len(t) /\ SubSeq(t, 1, Len(s)) = s

\* Every event the loop writes for a buffer, to the last delimiter.
RECURSIVE Drain(_)
Drain(b) ==
    LET a == Advance(b)
    IN IF a.ev = NoEvent THEN <<>> ELSE <<a.ev>> \o Drain(a.buf)

\* The events written when `bytes` arrive as a single chunk.
OneChunk(bytes) == Drain(Decode(<<>>, bytes).text)

Delivered == SubSeq(Input, 1, pos)

\* ---- C2: however the upstream bytes are split into read chunks, the relay
\* writes the events it writes when they arrive as one chunk: between two
\* reads the events written are those of the bytes delivered so far taken
\* as one chunk, and while a write is pending they are a prefix of them.
C2_ChunkingInvariant ==
    rpc # "idle" =>
        /\ IsPrefix(LoopEvents, OneChunk(Delivered))
        /\ rpc # "write" => LoopEvents = OneChunk(Delivered)

\* The whole stream was relayed, one read having ended between the two line
\* breaks of a delimiter and one inside a character, and events were written
\* after each.
C2_Witness ==
    /\ rpc = "closed"
    /\ ~fault.raised
    /\ cutDelim
    /\ cutChar
    /\ Len(out) = 2

\* ---- C3 (as claimed): once the relay closes the output, it has written
\* exactly one terminal event, and that event is its last write.
IsTerminal(ev) == ev.type \in {"response.completed", "response.error"}

C3_OneTerminalEvent ==
    rpc \in {"closing", "closed"} =>
        /\ Cardinality({ i \in 1..Len(out) : IsTerminal(out[i].ev) }) = 1
        /\ IsTerminal(out[Len(out)].ev)

\* ---- C4: writer.close() is invoked exactly once on every path: never
\* twice, and once the relay has finished never zero times.
C4_ClosedOnce ==
    /\ closes <= 1
    /\ rpc \in {"closing", "closed"} => closes = 1
    /\ rpc \in {"read", "write", "catch"} => closes = 0

\* The relay finished after a read fault, with failed client writes in the
\* loop and in the catch block.
C4_Witness ==
    /\ rpc = "closed"
    /\ fault.raised
    /\ clientGone
    /\ Len(out) >= 3

\* ---- C5: after a read fault the relay writes exactly one synthetic
\* response.error event, which carries the fault's message (the fault's
\* string form when it has no message), issues no other read or write, and
\* closes the output.
C5_ReadFault ==
    LET synthetic == { i \in 1..Len(out) : FromCatch(out[i]) }
    IN /\ ~fault.raised => synthetic = {}
       /\ fault.raised =>
            /\ rpc \in {"catch", "closing", "closed"}
            /\ synthetic = {Len(out)}
            /\ out[Len(out)].ev =
                 Event("response.error",
                       IF fault.message # "" THEN fault.message ELSE fault.str)
            /\ rpc # "catch" => closes = 1

\* A read faulted in mid-stream, after an event had been relayed; the fault
\* has no message.
C5_Witness ==
    /\ rpc = "closed"
    /\ fault.raised
    /\ fault.message = ""
    /\ pos < Len(Input)
    /\ Len(out) >= 2

\* ---- C6: the events the loop writes are the image, in upstream order, of
\* the recognized upstream events; every other frame is dropped.
\* What each upstream frame stands for.
Meaning(frame) ==
    CASE frame = <<"D", "t">> -> Event("response.output_text.delta", "x")
      [] frame = <<"D", "h", "l", "t">> -> Event("response.output_text.delta", "x")
      [] frame = <<"E", "c", "N", "D", "t">> -> Event("response.output_text.delta", "x")
      [] frame = <<"D", "c">> -> Event("response.completed", "")
      [] frame = <<"D", "<", "N", "D", ">">> -> Event("response.completed", "")
      [] frame = <<"D", "e">> -> Event("response.error", "upstream")
      [] OTHER -> NoEvent

IsEvent(ev) == ev # NoEvent

Image(fs) == SelectSeq([i \in 1..Len(fs) |-> Meaning(fs[i])], IsEvent)

\* The frames delivered in full, delimiter included.
RECURSIVE FramesWithin(_, _)
FramesWithin(fs, n) ==
    IF fs = <<>> \/ Len(Head(fs)) + 2 > n THEN <<>>
    ELSE <<Head(fs)>> \o FramesWithin(Tail(fs), n - Len(Head(fs)) - 2)

C20_StopsOnWriteFailure ==
    clientGone => rpc \in {"closing", "closed"}

\* ---- C24: chunkText terminates for every finite input text with the default
\* parameters (maxLen 1200, overlap 200), texts shorter than maxLen included:
\* every call returns.
C24_ChunkTextTerminates == <>(cpc = "returned")

\* ---- C25: in the chat-completions relay (part_003) the writer's close is
\* invoked exactly once on every path: an upstream [DONE], an upstream that
\* ends without one, a read that faults.
C25_ChatClosedOnce == wcloses = (IF wpc = "closed" THEN 1 ELSE 0)

\* ---- C26: in the chat-completions relay (part_003) no heartbeat frame is
\* issued on the writer after a [DONE] frame or after close, under every
\* interleaving of the timer with the relay loop.
C26_NoBeatAfterDone ==
    \A j \in 1..Len(wout) : \A k \in (j + 1)..Len(wout) :
        wout[j] \in {"done", "close"} => wout[k] # "hb"

\* The values of the data lines of a segment, in order: what follows the
\* field name, trimmed.
IsDataLine(line) == line # <<>> /\ Head(line) = "D"

DataValues(ls) ==
    LET ds == SelectSeq(ls, IsDataLine)
    IN [j \in 1..Len(ds) |-> Trim(Tail(ds[j]))]

RECURSIVE JoinWithBreaks(_)
JoinWithBreaks(ds) ==
    IF ds = <<>> THEN <<>>
    ELSE IF Len(ds) = 1 THEN ds[1]
    ELSE ds[1] \o <<"N">> \o JoinWithBreaks(Tail(ds))

\* ---- C27: for a segment with data lines d1..dn (n >= 1) the relay builds the
\* event's data as d1..dn joined by single line breaks, for all payloads,
\* empty ones included.
C27_JoinedByBreaks ==
    (segOut.done /\ DataValues(segIn) # <<>>) =>
        segOut.evt.data = JoinWithBreaks(DataValues(segIn))

\* The text of the whole upstream input, and of the part delivered so far.
WholeText == Decode(<<>>, Input).text

DeliveredText == Decode(<<>>, Delivered).text

\* A text cut at its delimiters, scanned from the left (at) from the end of
\* the delimiter before (from): the segments that are followed by a
\* delimiter, and what follows the last delimiter.
RECURSIVE CutAtDelimiters(_, _, _)
CutAtDelimiters(t, from, at) ==
    IF at >= Len(t) THEN [segs |-> <<>>, residue |-> SubSeq(t, from, Len(t))]
    ELSE IF t[at] = "N" /\ t[at + 1] = "N"
    THEN LET r == CutAtDelimiters(t, at + 2, at + 2)
         IN [r EXCEPT !.segs = <<SubSeq(t, from, at - 1)>> \o @]
    ELSE CutAtDelimiters(t, from, at + 1)

Terminated(t) == CutAtDelimiters(t, 1, 1).segs

Residue(t) == CutAtDelimiters(t, 1, 1).residue

EventsOfSegments(segs) ==
    SelectSeq([j \in 1..Len(segs) |-> SegmentEvent(segs[j])], IsEvent)

\* ---- C28: every event the relay loop writes derives from a segment that is
\* followed by a complete delimiter in the upstream input, in order; at
\* upstream end-of-stream the events are those of the terminated segments
\* and the trailing segment is still in the buffer, neither parsed nor
\* written.
C28_OnlyTerminatedSegments ==
    rpc # "idle" =>
        IF rpc \in {"closing", "closed"} /\ ~fault.raised
        THEN /\ LoopEvents = EventsOfSegments(Terminated(WholeText))
             /\ buf = Residue(WholeText)
        ELSE IsPrefix(LoopEvents, EventsOfSegments(Terminated(WholeText)))

\* Upstream ended after frames that were relayed and a trailing data line
\* with no delimiter, which would have been an event: it was not written.
C28_Witness ==
    /\ rpc = "closed"
    /\ ~fault.raised
    /\ LoopEvents # <<>>
    /\ tail = <<"D", "t", "N">>
    /\ buf = tail
    /\ SegmentEvent(buf) # NoEvent
    /\ Len(LoopEvents) = Len(frames)

\* ---- C29: each time the relay is about to read from upstream, its buffer
\* holds no two consecutive line breaks and equals the part of the input
\* decoded so far that follows the last delimiter.
C29_BufferIsResidue ==
    rpc = "read" =>
        /\ \A j \in 1..(Len(buf) - 1) : ~(buf[j] = "N" /\ buf[j + 1] = "N")
        /\ buf = Residue(DeliveredText)

\* A read is due after a chunk that ended inside a segment, past a delimiter.
C29_Witness ==
    /\ rpc = "read"
    /\ Terminated(DeliveredText) # <<>>
    /\ buf # <<>>
    /\ Len(buf) < Len(DeliveredText)
    /\ pos < Len(Input)

\* The frames whose data parses as JSON.
HasJsonData(frame) == JsonParse(ParseSegment(Decode(<<>>, frame).text).data).ok

\* ---- C30: a segment whose data is not valid JSON produces no client event,
\* no error event in particular, and does not change the relaying of the
\* segments after it: the events written are those of the stream with these
\* segments taken out, and the catch block writes only after a read fault.
C30_BadJsonDropped ==
    (rpc \notin {"idle", "write"} /\ IndexOfDelimiter(tail) = 0) =>
        /\ LoopEvents = OneChunk(Wire(SelectSeq(FramesWithin(frames, pos), HasJsonData)))
        /\ SelectSeq(out, FromCatch) # <<>> => fault.raised

\* A frame that is not JSON came first and the text delta after it was
\* relayed, alone.
C30_Witness ==
    /\ rpc = "closed"
    /\ ~fault.raised
    /\ frames = << <<"D", "x">>, <<"D", "t">> >>
    /\ EventsOf(out) = << Event("response.output_text.delta", "x") >>

\* ---- C31: for an upstream stream that eventually ends or faults and a
\* client that keeps consuming the response, the relay eventually closes the
\* output stream: close is invoked and settles.
C31_EventuallyClosed == <>(rpc = "closed" /\ closes = 1)

\* The relay has closed the output after an upstream that ended, and after
\* one that faulted, with events written before.
C31_Witness ==
    /\ rpc = "closed"
    /\ closes = 1
    /\ out # <<>>
    /\ pos = Len(Input)
    /\ ~clientGone

\* Client writes issued and not yet settled.
InFlight == Len(out) - settled

\* ---- C32: the relay has at most one client write in flight, issues no
\* upstream read while one is pending, and takes no further segment off the
\* buffer before the pending write has settled.
C32_OneWriteInFlight ==
    [][ /\ InFlight \in {0, 1}
        /\ rpc = "read" => InFlight = 0
        /\ InFlight = 1 => /\ pos' = pos
                           /\ settled' = settled + 1
                           /\ Len(out') <= Len(out) + 1 ]_vars

\* A write is in flight while a further segment waits in the buffer and
\* upstream has more to send.
C32_Witness ==
    /\ rpc = "write"
    /\ InFlight = 1
    /\ IndexOfDelimiter(buf) # 0
    /\ pos < Len(Input)

\* What a call of fetch does when it runs alone, for the request q against
\* the bindings w: its requests to the services, in order, and its response.
SoloRanked(cands, q, calls) ==
    LET result == TopOf(SortDesc(cands))
    IN IF IsEmptyResult(result)
       THEN [calls |-> calls, response |-> RefusalResponse]
       ELSE [calls |-> Append(calls, GenCall(result)), response |-> GenResponse(q.gen)]

RECURSIVE SoloScan(_, _, _, _)
SoloScan(w, q, l, calls) ==
    LET page == w.store[l.cursor + 1]
        listed == Append(calls, ListCall(l.cursor))
        cur == IF page.more THEN l.cursor + 1 ELSE 0
        ks == SliceKeys(page.keys, Remaining(l.processed))
        fetched == listed \o GetCalls(ks)
        cands == l.candidates \o Items(ks, q.vec, Len(l.candidates) + 1)
    IN IF page.fault THEN [calls |-> listed, response |-> CatchResponse]
       ELSE IF Remaining(l.processed) <= 0 THEN SoloRanked(l.candidates, q, listed)
       ELSE IF \E i \in 1..Len(ks) : ks[i].k = "fault"
            THEN [calls |-> fetched, response |-> CatchResponse]
       ELSE IF LoopAgain(cur # 0, l.pages + 1)
            THEN SoloScan(w, q, [cursor |-> cur, pages |-> l.pages + 1,
                                 processed |-> l.processed + KeyCount(ks),
                                 candidates |-> cands], fetched)
       ELSE SoloRanked(cands, q, fetched)

Solo(w, q) ==
    LET e == [keyOk |-> w.keyOk, kvBound |-> w.kvBound, qEmpty |-> q.qEmpty]
    IN IF GuardFailure(e) # ""
       THEN [calls |-> <<>>, response |-> sseError(<<GuardFailure(e)>>)]
       ELSE IF q.embed = "null"
            THEN [calls |-> <<EmbedCall>>, response |-> sseError(<<MSG_EMBED>>)]
       ELSE IF q.embed = "throw"
            THEN [calls |-> <<EmbedCall>>, response |-> Unhandled]
       ELSE SoloScan(w, q, FreshLocals, <<EmbedCall>>)

\* ---- C33: two calls of fetch that run at once against the same unchanging
\* store do not interfere: under every interleaving of their awaits, the
\* requests each has issued are the first ones it issues when it runs alone,
\* and once it has returned it has issued all of them and its response is
\* the one it returns alone.
C33_NoInterference ==
    \A r \in Reqs :
       reqs[r].pc # "idle" =>
          \E alone \in {Solo(worker, reqs[r].q)} :
             /\ IsPrefix(reqs[r].calls, alone.calls)
             /\ reqs[r].pc = "done" => /\ reqs[r].calls = alone.calls
                                       /\ reqs[r].response = alone.response

\* Both calls are suspended inside their scans, on different pages, their
\* queries having different embeddings.
C33_Witness ==
    /\ reqs[1].pc = "gets"
    /\ locals[FrameOf(1)].pages = 2
    /\ reqs[2].pc = "list"
    /\ locals[FrameOf(2)].pages = 1
    /\ reqs[1].q.vec # reqs[2].q.vec

\* ---- C34 (as claimed): in the variant with a fallback, a fault during
\* retrieval (missing store binding, embedding error, a list or get fault)
\* never results in a request to the generation service, and the response
\* reports the fault.
C34_FaultNeverGenerates ==
    fb.fault # "none" =>
       /\ fb.genCalls = 0
       /\ fb.pc = "done" => fb.response.kind = "error"

\* A text without its event lines: every line that starts with the event
\* tag is dropped, with the line break that ends it.
RECURSIVE StripEventLines(_)
StripEventLines(t) ==
    IF t = <<>> THEN <<>>
    ELSE LET brk == IF \E i \in 1..Len(t) : t[i] = "N"
                    THEN CHOOSE i \in 1..Len(t) :
                           t[i] = "N" /\ \A j \in 1..(i - 1) : t[j] # "N"
                    ELSE Len(t) + 1
             line == SubSeq(t, 1, Min(brk, Len(t)))
             rest == SubSeq(t, brk + 1, Len(t))
         IN IF Head(t) = "E" THEN StripEventLines(rest)
            ELSE line \o StripEventLines(rest)

\* ---- C35: what the relay writes depends on the data payloads only: once
\* upstream has ended, the events written are those of the upstream text
\* without its event lines, so that two streams that differ only in their
\* event lines are relayed as the same events.
C35_EventLinesIgnored ==
    (rpc \in {"closing", "closed"} /\ ~fault.raised) =>
        LoopEvents = Drain(StripEventLines(WholeText))

\* A stream was relayed whose first segment carries a text delta under the
\* event name of a completion: it was written as a text delta.
C35_Witness ==
    /\ rpc = "closed"
    /\ ~fault.raised
    /\ Len(frames) = MaxFrames
    /\ frames[1] = <<"E", "c", "N", "D", "t">>
    /\ Len(LoopEvents) = MaxFrames
    /\ LoopEvents[1].type = "response.output_text.delta"

====
